---- MODULE Spec2Model ----
(***************************************************************************)
(* A model of mypy/typeanal.py: the TypeAnalyser visitor that turns        *)
(* unbound type expressions into bound types, with the deferral protocol   *)
(* it follows against the semantic analyzer (api) across passes.           *)
(*                                                                         *)
(* Types and symbol nodes are records tagged by k / kind.  The mutable     *)
(* state of one analysis (the analyzer's nesting_level, tvar_scope and     *)
(* aliases_used, the calls made on api, and whether an exception is        *)
(* propagating) is threaded through the visitor as the record st; every    *)
(* visitor operator returns [res |-> type, st |-> state after].            *)
(***************************************************************************)
EXTENDS Integers, Sequences, FiniteSets, TLC

VARIABLES
    symtab,           \* api: fullname -> symbol table node
    incomplete,       \* api: the set of incomplete namespaces
    final_iteration,  \* api.final_iteration
    pass,             \* number of the driver's current pass
    pc,               \* "todo": the unit awaits analysis; "done": it was analysed
    self,             \* the TypeAnalyser's constructor flags and options
    scope0,           \* the tvar_scope handed to the constructor
    expr,             \* the unit's type expression, as parsed
    inp,              \* the type handed to the analyzer in this pass
    result,           \* the type the analyzer returned
    after,            \* the analysis state st when the analyzer returned
    deferred          \* did an earlier pass return a PlaceholderType and defer?

vars == <<symtab, incomplete, final_iteration, pass, pc, self, scope0, expr, inp,
          result, after, deferred>>

-----------------------------------------------------------------------------
(* Bounds of the model *)

\* Longest argument list of a type expression.
MaxArgs == 2
\* Number of passes the driver makes over the unit.
MaxPass == 3

-----------------------------------------------------------------------------
(* mypy.types: the type variants the analyzer visits *)

\* Python's None where a type or a node is optional.
NoneVal == [k |-> "<None>"]
\* The value of an expression that raised.
NoRes == [k |-> "<raised>"]

AnyType(type_of_any) == [k |-> "AnyType", type_of_any |-> type_of_any]
NoneType == [k |-> "NoneType"]
UninhabitedType == [k |-> "UninhabitedType", is_noreturn |-> FALSE]
NoReturnType == [k |-> "UninhabitedType", is_noreturn |-> TRUE]
DeletedType == [k |-> "DeletedType"]
PartialType == [k |-> "PartialType"]
EllipsisType == [k |-> "EllipsisType"]
UnboundType(name, args) ==
    [k |-> "UnboundType", name |-> name, args |-> args, optional |-> FALSE,
     empty_tuple_index |-> FALSE, original_str_expr |-> NoneVal,
     original_str_fallback |-> NoneVal]
Instance(type, args) ==
    [k |-> "Instance", type |-> type, args |-> args, invalid |-> FALSE]
PlaceholderType(fullname, args) ==
    [k |-> "PlaceholderType", fullname |-> fullname, args |-> args]
TypeVarDef(name, fullname, id, values, upper_bound) ==
    [name |-> name, fullname |-> fullname, id |-> id, values |-> values,
     upper_bound |-> upper_bound]
TypeVarType(binder) ==
    [k |-> "TypeVarType", name |-> binder.name, fullname |-> binder.fullname,
     id |-> binder.id]
TupleType(items, fallback, implicit) ==
    [k |-> "TupleType", items |-> items, partial_fallback |-> fallback,
     implicit |-> implicit]
TypedDictType(names, item_types, required_keys, fallback) ==
    [k |-> "TypedDictType", names |-> names, item_types |-> item_types,
     required_keys |-> required_keys, fallback |-> fallback]
LiteralType(value, fallback) == [k |-> "LiteralType", value |-> value, fallback |-> fallback]

\* The items of a union with the nested unions spliced in (flatten_nested_unions).
RECURSIVE flatten_nested_unions(_)
flatten_nested_unions(items) ==
    IF items = <<>> THEN <<>>
    ELSE LET head == items[1]
             rest == flatten_nested_unions(Tail(items))
         IN IF head.k = "UnionType" THEN flatten_nested_unions(head.items) \o rest
            ELSE <<head>> \o rest

\* UnionType's constructor flattens its items.
UnionType(items) == [k |-> "UnionType", items |-> flatten_nested_unions(items)]

\* UnionType.make_union
make_union(items) ==
    IF Len(items) > 1 THEN UnionType(items)
    ELSE IF Len(items) = 1 THEN items[1]
    ELSE UninhabitedType

\* union_items: the flattened items of a union, or the type itself.
union_items(t) == IF t.k = "UnionType" THEN flatten_nested_unions(t.items) ELSE <<t>>
TypeType(item) == [k |-> "TypeType", item |-> item]

\* TypeType.make_normalized: Type[Union[A, B]] becomes Union[Type[A], Type[B]].
make_normalized(item) ==
    IF item.k = "UnionType"
    THEN make_union([i \in 1..Len(item.items) |-> TypeType(item.items[i])])
    ELSE TypeType(item)
StarType(type) == [k |-> "StarType", type |-> type]
TypeList(items) == [k |-> "TypeList", items |-> items]
RawExpressionType(literal_value, base_type_name) ==
    [k |-> "RawExpressionType", literal_value |-> literal_value,
     base_type_name |-> base_type_name]
CallableArgument(typ, name, constructor) ==
    [k |-> "CallableArgument", typ |-> typ, name |-> name, constructor |-> constructor]
CallableType(arg_types, arg_kinds, arg_names, ret_type, fallback, variables, is_ellipsis_args) ==
    [k |-> "CallableType", arg_types |-> arg_types, arg_kinds |-> arg_kinds,
     arg_names |-> arg_names, ret_type |-> ret_type, fallback |-> fallback,
     variables |-> variables, is_ellipsis_args |-> is_ellipsis_args]

-----------------------------------------------------------------------------
(* mypy.nodes: what a symbol table entry refers to *)

NoSym == [present |-> FALSE]
Sym(node) == [present |-> TRUE, node |-> node]
NoNode == [kind |-> "None"]
PlaceholderNode(fullname, becomes_typeinfo) ==
    [kind |-> "PlaceholderNode", fullname |-> fullname,
     becomes_typeinfo |-> becomes_typeinfo]
TypeInfo(fullname, type_vars, tuple_type, typeddict_type, is_enum) ==
    [kind |-> "TypeInfo", fullname |-> fullname, type_vars |-> type_vars,
     tuple_type |-> tuple_type, typeddict_type |-> typeddict_type,
     is_enum |-> is_enum]
TypeAlias(fullname, target, alias_tvars, no_args) ==
    [kind |-> "TypeAlias", fullname |-> fullname, target |-> target,
     alias_tvars |-> alias_tvars, no_args |-> no_args]
Var(fullname, type, enum_info) ==
    [kind |-> "Var", fullname |-> fullname, type |-> type, info |-> enum_info]
FuncDef(fullname) == [kind |-> "FuncDef", fullname |-> fullname]
MypyFile(fullname) == [kind |-> "MypyFile", fullname |-> fullname]
TypeVarExpr(fullname) == [kind |-> "TypeVarExpr", fullname |-> fullname]

\* A plain class of the given type variables.
ClassDef(fullname, type_vars) == TypeInfo(fullname, type_vars, NoneVal, NoneVal, FALSE)

-----------------------------------------------------------------------------
(* The module under analysis: the names it can refer to *)

\* lookup_qualified resolves a name as written to a fully qualified name.
Scope ==
    [n \in {"C", "G", "P", "Q", "A", "B", "v", "w", "f", "mod", "T", "S", "N",
            "NT", "TD", "H", "tuple", "Tuple", "Any", "None", "Final", "Union",
            "Optional", "Type", "ClassVar", "NoReturn", "Annotated", "Callable",
            "Literal", "RED", "DefaultArg", "VarArg", "U"} |->
        CASE n = "tuple" -> "builtins.tuple"
          [] n = "None" -> "builtins.None"
          [] n \in {"Tuple", "Any", "Final", "Union", "Optional", "Type",
                    "ClassVar", "NoReturn", "Callable", "Literal"} -> "typing." \o n
          [] n = "Annotated" -> "typing_extensions.Annotated"
          [] n \in {"DefaultArg", "VarArg"} -> "mypy_extensions." \o n
          [] n = "RED" -> "m.E.RED"
          [] OTHER -> "m." \o n]

FullNames ==
    {Scope[n] : n \in DOMAIN Scope}
    \cup {"builtins.function", "builtins.object", "builtins.int", "builtins.str"}

object_type == Instance("builtins.object", <<>>)

\* nongen_builtins of mypy.nodes, restricted to the names of the model.
nongen_builtins == {"builtins.tuple"}

\* The names a plugin registered a type analyze hook for, and what the hook returns.
hooked == {"m.H"}
hook_result(t) == Instance("m.H", <<AnyType("explicit")>>)

-----------------------------------------------------------------------------
(* mypy.tvar_scope.TypeVarScope: a chain of frames, innermost last *)

Frame(scope, func_id) == [scope |-> scope, func_id |-> func_id]

method_frame(tvar_scope) == Append(tvar_scope, Frame({}, 0))

RECURSIVE get_binding(_, _)
get_binding(tvar_scope, fullname) ==
    IF tvar_scope = <<>> THEN NoneVal
    ELSE LET frame == tvar_scope[Len(tvar_scope)]
             found == {d \in frame.scope : d.fullname = fullname}
         IN IF found # {} THEN CHOOSE d \in found : TRUE
            ELSE get_binding(SubSeq(tvar_scope, 1, Len(tvar_scope) - 1), fullname)

\* allow_binding of a method frame: the name is bound in no enclosing frame.
allow_binding(tvar_scope, fullname) == get_binding(tvar_scope, fullname) = NoneVal

bind_new(tvar_scope, name, tvar_expr) ==
    LET n == Len(tvar_scope)
        frame == tvar_scope[n]
        i == frame.func_id - 1
        def == TypeVarDef(name, tvar_expr.fullname, i, <<>>, object_type)
    IN [tvar_scope EXCEPT ![n] =
            Frame({d \in frame.scope : d.fullname # tvar_expr.fullname} \cup {def}, i)]

-----------------------------------------------------------------------------
(* SemanticAnalyzerCoreInterface: the api the analyzer consumes *)

lookup_fully_qualified_or_none(fullname) ==
    IF fullname \in DOMAIN symtab THEN symtab[fullname] ELSE NoSym

lookup_qualified(name) ==
    IF name \in DOMAIN Scope THEN lookup_fully_qualified_or_none(Scope[name]) ELSE NoSym

is_incomplete_namespace(ns) == ns \in incomplete

-----------------------------------------------------------------------------
(* The state of one analysis, and the calls that change it *)

NewState(tvar_scope) ==
    [nesting_level |-> 0, tvar_scope |-> tvar_scope, aliases_used |-> {},
     calls |-> <<>>, raised |-> FALSE]

R(res, st) == [res |-> res, st |-> st]

\* An exception starts to propagate (an assert failed).
Raise(st) == R(NoRes, [st EXCEPT !.raised = TRUE])

\* Sequencing of statements: the rest runs on the value of the call before it,
\* unless that call raised, and then the exception propagates.
Then(r, rest(_, _)) == IF r.st.raised THEN R(NoRes, r.st) ELSE rest(r.res, r.st)

Call(st, ev, msg) ==
    [st EXCEPT !.calls = Append(@, [ev |-> ev, msg |-> msg, lvl |-> st.nesting_level])]

fail(st, msg) == Call(st, "fail", msg)

note(st, msg) == Call(st, "note", msg)

defer(st) == Call(st, "defer", "")

record_incomplete_ref(st) == Call(st, "record_incomplete_ref", "")

-----------------------------------------------------------------------------
(* Module-level helpers of typeanal.py *)

\* The TypeInfo an Instance refers to: class objects outlive symbol table entries.
Classes ==
    [f \in {"m.C", "m.G", "m.K", "m.P", "m.H", "m.E", "m.NT", "m.TD", "builtins.tuple",
            "builtins.function", "builtins.object", "builtins.int", "builtins.str"} |->
        CASE f \in {"m.G", "m.P", "m.H", "builtins.tuple"} -> ClassDef(f, <<"T">>)
          [] f = "m.K" -> ClassDef(f, <<"T", "S">>)
          [] f = "m.E" -> TypeInfo(f, <<>>, NoneVal, NoneVal, TRUE)
          [] f = "m.NT" ->
                TypeInfo(f, <<>>,
                         TupleType(<<Instance("m.C", <<>>)>>,
                                   Instance("builtins.tuple", <<AnyType("special_form")>>),
                                   FALSE),
                         NoneVal, FALSE)
          [] f = "m.TD" ->
                TypeInfo(f, <<>>, NoneVal,
                         TypedDictType(<<"x">>, <<Instance("m.C", <<>>)>>, {"x"},
                                       Instance("builtins.object", <<>>)),
                         FALSE)
          [] OTHER -> ClassDef(f, <<>>)]

type_vars(type) == Classes[type].type_vars

\* fix_instance left out: the instance keeps the arguments it was written with.
fix_instance_skipped(t, disallow_any, use_generic_error, unexpanded_type, st) == R(t, st)

\* get_omitted_any if the policy were always the permissive one.
get_omitted_any_permissive(disallow_any, typ, fullname, unexpanded_type, st) ==
    R(AnyType("from_omitted_generics"), st)

get_omitted_any(disallow_any, typ, fullname, unexpanded_type, st) ==
    IF disallow_any
    THEN R(AnyType("from_error"),
           IF fullname \in nongen_builtins
           THEN fail(st, "Implicit generic Any. Use typing.X and specify generic parameters")
           ELSE fail(st, "Missing type parameters for generic type"))
    ELSE R(AnyType("from_omitted_generics"), st)

\* fix_instance if a wrong nonzero count were padded like an empty list.
fix_instance_padded(t, disallow_any, use_generic_error, unexpanded_type, st) ==
    R([t EXCEPT !.args = [i \in 1..Len(type_vars(t.type)) |->
                            IF i <= Len(t.args) THEN t.args[i]
                            ELSE AnyType("from_omitted_generics")]],
      st)

fix_instance(t, disallow_any, use_generic_error, unexpanded_type, st) ==
    LET n == Len(type_vars(t.type))
    IN IF Len(t.args) = 0
       THEN LET fullname == IF use_generic_error THEN "" ELSE t.type
                any == get_omitted_any(disallow_any, t, fullname, unexpanded_type, st)
            IN R([t EXCEPT !.args = [i \in 1..n |-> any.res]], any.st)
       ELSE R([t EXCEPT !.args = [i \in 1..n |-> AnyType("from_error")],
                        !.invalid = TRUE],
              fail(st, "expects n type arguments, but m given"))

\* get_typ_args and set_typ_args of mypy.types.
get_typ_args(tp) ==
    CASE tp.k = "Instance" -> tp.args
      [] tp.k \in {"UnionType", "TupleType"} -> tp.items
      [] tp.k = "CallableType" -> Append(tp.arg_types, tp.ret_type)
      [] OTHER -> <<>>

set_typ_args(tp, new_args) ==
    CASE tp.k = "Instance" -> Instance(tp.type, new_args)
      [] tp.k = "TupleType" -> [tp EXCEPT !.items = new_args]
      [] tp.k = "UnionType" -> UnionType(new_args)
      [] tp.k = "CallableType" ->
            [tp EXCEPT !.arg_types = SubSeq(new_args, 1, Len(new_args) - 1),
                       !.ret_type = new_args[Len(new_args)]]
      [] OTHER -> tp

\* names.index(tvar)
index(names, tvar) == CHOOSE i \in 1..Len(names) : names[i] = tvar /\ \A j \in 1..(i - 1) : names[j] # tvar

RECURSIVE replace_alias_tvars(_, _, _)
replace_alias_tvars(tp, names, subs) ==
    LET typ_args == get_typ_args(tp)
        new_args == [i \in 1..Len(typ_args) |->
            LET arg == typ_args[i]
            IN IF arg.k \in {"UnboundType", "TypeVarType"}
                  /\ \E j \in 1..Len(names) : names[j] = arg.name
               THEN subs[index(names, arg.name)]
               ELSE replace_alias_tvars(arg, names, subs)]
    IN set_typ_args(tp, new_args)

set_any_tvars(tp, names, from_error, disallow_any, unexpanded_type, st) ==
    LET type_of_any == IF from_error \/ disallow_any THEN "from_error"
                       ELSE "from_omitted_generics"
        st1 == IF disallow_any THEN fail(st, "Missing type parameters for generic type")
               ELSE st
    IN R(replace_alias_tvars(tp, names, [i \in 1..Len(names) |-> AnyType(type_of_any)]), st1)

\* expand_type_alias if a bare alias kept the arguments its target was given.
expand_type_alias_unstripped(target, alias_tvars, args, no_args, unexpanded_type, disallow_any, st) ==
    IF Len(alias_tvars) > 0 /\ Len(args) = 0
    THEN set_any_tvars(target, alias_tvars, FALSE, disallow_any, unexpanded_type, st)
    ELSE IF Len(alias_tvars) = 0 /\ (Len(args) = 0 \/ (target.k = "Instance" /\ no_args))
    THEN R(target, st)
    ELSE IF Len(args) # Len(alias_tvars)
    THEN set_any_tvars(target, alias_tvars, TRUE, FALSE, NoneVal,
                       fail(st, "Bad number of arguments for type alias"))
    ELSE R(replace_alias_tvars(target, alias_tvars, args), st)

expand_type_alias(target, alias_tvars, args, no_args, unexpanded_type, disallow_any, st) ==
    LET exp_len == Len(alias_tvars)
        act_len == Len(args)
    IN IF exp_len > 0 /\ act_len = 0
       THEN set_any_tvars(target, alias_tvars, FALSE, disallow_any, unexpanded_type, st)
       ELSE IF exp_len = 0 /\ act_len = 0
       THEN IF no_args
            THEN IF target.k = "Instance" THEN R(Instance(target.type, <<>>), st)
                 ELSE Raise(st)
            ELSE R(target, st)
       ELSE IF exp_len = 0 /\ act_len > 0 /\ target.k = "Instance" /\ no_args
       THEN R(Instance(target.type, args), st)
       ELSE IF act_len # exp_len
       THEN set_any_tvars(target, alias_tvars, TRUE, FALSE, NoneVal,
                          fail(st, "Bad number of arguments for type alias"))
       ELSE LET typ == replace_alias_tvars(target, alias_tvars, args)
            IN IF typ.k = "Instance" /\ typ.type = "mypy_extensions.FlexibleAlias"
               THEN R(typ.args[Len(typ.args)], st)
               ELSE R(typ, st)

\* make_optional_type if it appended None to whatever it is given.
make_optional_type_appending(t) == UnionType(<<t, NoneType>>)

make_optional_type(t) ==
    IF t.k = "NoneType" THEN t
    ELSE IF t.k = "UnionType"
    THEN UnionType(SelectSeq(union_items(t), LAMBDA item : item.k # "NoneType")
                   \o <<NoneType>>)
    ELSE UnionType(<<t, NoneType>>)

-----------------------------------------------------------------------------
(* class TypeAnalyser *)

RECURSIVE accept(_, _), anal_type(_, _, _), anal_array_from(_, _, _, _, _),
          visit_unbound_type(_, _, _), visit_unbound_type_nonoptional(_, _, _),
          visit_placeholder_node(_, _, _), visit_alias_node(_, _, _),
          try_analyze_special_unbound_type(_, _, _),
          analyze_type_with_type_info(_, _, _),
          analyze_unbound_type_without_type_info(_, _, _, _),
          report_not_a_type(_, _, _, _),
          visit_callable_type(_, _, _), visit_tuple_type(_, _),
          visit_typeddict_type(_, _), visit_placeholder_type(_, _),
          anal_var_defs_from(_, _, _, _),
          analyze_callable_type(_, _), analyze_callable_args(_, _, _, _, _, _),
          analyze_literal_type(_, _), analyze_literal_type_from(_, _, _, _),
          analyze_literal_param(_, _, _)

\* options.disallow_any_generics and not is_typeshed_stub
disallow_any == self.disallow_any_generics /\ ~self.is_typeshed_stub

\* anal_type if it restored the level on return only.
anal_type_finally_on_return(nested, r) ==
    R(r.res, IF nested /\ ~r.st.raised THEN [r.st EXCEPT !.nesting_level = @ - 1]
             ELSE r.st)

\* anal_type, the finally clause: the level is restored on return and on raise
anal_type_finally(nested, r) ==
    R(r.res, IF nested THEN [r.st EXCEPT !.nesting_level = @ - 1] ELSE r.st)

\* anal_type if it left the nesting level alone.
anal_type_unnested(t, nested, st) == accept(t, st)

anal_type(t, nested, st) ==
    anal_type_finally(nested,
        accept(t, IF nested THEN [st EXCEPT !.nesting_level = @ + 1] ELSE st))

anal_array_from(a, i, nested, res, st) ==
    IF i > Len(a) THEN R(res, st)
    ELSE Then(anal_type(a[i], nested, st),
              LAMBDA t, st1 : anal_array_from(a, i + 1, nested, Append(res, t), st1))

anal_array(a, nested, st) == anal_array_from(a, 1, nested, <<>>, st)

named_type(fully_qualified_name, args, st) ==
    LET node == lookup_fully_qualified_or_none(fully_qualified_name)
    IN IF ~node.present THEN Raise(st)
       ELSE IF node.node.kind # "TypeInfo" THEN Raise(st)
       ELSE R(Instance(node.node.fullname,
                       IF args # <<>> THEN args
                       ELSE [i \in 1..Len(node.node.type_vars) |-> AnyType("special_form")]),
              st)

tuple_type(items, st) ==
    Then(named_type("builtins.tuple", <<AnyType("special_form")>>, st),
         LAMBDA fallback, st1 : R(TupleType(items, fallback, FALSE), st1))

\* cannot_resolve_type without its report.
cannot_resolve_type_silent(t, st) == st

cannot_resolve_type(t, st) ==
    fail(st, "Cannot resolve name (possible cyclic definition)")

\* The placeholder branch as the prose describes it: without allow_placeholder
\* every placeholder is replaced by the unknown type.
visit_placeholder_node_unknown(t, node, st) ==
    IF final_iteration
    THEN R(AnyType("from_error"), cannot_resolve_type(t, st))
    ELSE IF node.becomes_typeinfo /\ self.allow_placeholder
    THEN Then(anal_array(t.args, TRUE, defer(st)),
              LAMBDA args, st1 : R(PlaceholderType(node.fullname, args), st1))
    ELSE R(AnyType("special_form"), record_incomplete_ref(st))

\* The placeholder branch with the arguments left as written.
visit_placeholder_node_raw_args(t, node, st) ==
    IF final_iteration
    THEN R(AnyType("from_error"), cannot_resolve_type(t, st))
    ELSE IF node.becomes_typeinfo
    THEN R(PlaceholderType(node.fullname, t.args),
           IF self.allow_placeholder THEN defer(st) ELSE record_incomplete_ref(st))
    ELSE R(AnyType("special_form"), record_incomplete_ref(st))

\* visit_unbound_type_nonoptional, the symbol is a PlaceholderNode
visit_placeholder_node(t, node, st) ==
    IF node.becomes_typeinfo
    THEN IF final_iteration
         THEN R(AnyType("from_error"), cannot_resolve_type(t, st))
         ELSE Then(anal_array(t.args, TRUE,
                              IF self.allow_placeholder THEN defer(st)
                              ELSE record_incomplete_ref(st)),
                   LAMBDA args, st1 : R(PlaceholderType(node.fullname, args), st1))
    ELSE IF final_iteration
         THEN R(AnyType("from_error"), cannot_resolve_type(t, st))
         ELSE R(AnyType("special_form"), record_incomplete_ref(st))

\* visit_unbound_type_nonoptional, the symbol is a TypeAlias
visit_alias_node(t, node, st) ==
    Then(anal_array(t.args, TRUE, [st EXCEPT !.aliases_used = @ \cup {node.fullname}]),
         LAMBDA an_args, st1 :
    Then(expand_type_alias(node.target, node.alias_tvars, an_args, node.no_args, t,
                           disallow_any, st1),
         LAMBDA res, st2 :
            IF res.k = "Instance" /\ Len(res.args) # Len(type_vars(res.type))
               /\ ~self.defining_alias
            THEN fix_instance(res, disallow_any, TRUE, t, st2)
            ELSE R(res, st2)))

\* The missing-symbol branch if it resolved the arguments first.
visit_missing_symbol_resolving(t, st) ==
    Then(anal_array(t.args, TRUE, st),
         LAMBDA args, st1 : R(AnyType("special_form"), st1))

\* visit_unbound_type_nonoptional, lookup found no symbol
visit_missing_symbol(t, st) == R(AnyType("special_form"), st)

visit_unbound_type_nonoptional(t, defining_literal, st) ==
    LET sym == lookup_qualified(t.name)
    IN IF sym.present
       THEN LET node == sym.node
            IN IF node.kind = "PlaceholderNode" THEN visit_placeholder_node(t, node, st)
               ELSE IF node.kind = "None"
               THEN R(AnyType("special_form"), fail(st, "Internal error (node is None)"))
               ELSE IF node.fullname \in hooked THEN R(hook_result(t), st)
               ELSE
               LET fullname == node.fullname
                   st1 == IF fullname \in nongen_builtins /\ t.args # <<>>
                             /\ ~self.allow_unnormalized
                          THEN fail(st, "is not subscriptable")
                          ELSE st
                   tvar_def == get_binding(st1.tvar_scope, fullname)
               IN IF node.kind = "TypeVarExpr" /\ tvar_def # NoneVal /\ self.defining_alias
                  THEN R(AnyType("from_error"),
                         fail(st1, "Can't use bound type variable to define generic alias"))
                  ELSE IF node.kind = "TypeVarExpr" /\ tvar_def # NoneVal
                  THEN R(TypeVarType(tvar_def),
                         IF Len(t.args) > 0
                         THEN fail(st1, "Type variable used with arguments")
                         ELSE st1)
                  ELSE
                  Then(try_analyze_special_unbound_type(t, fullname, st1),
                       LAMBDA special, st2 :
                          IF special # NoneVal THEN R(special, st2)
                          ELSE IF node.kind = "TypeAlias"
                          THEN visit_alias_node(t, node, st2)
                          ELSE IF node.kind = "TypeInfo"
                          THEN analyze_type_with_type_info(node, t.args, st2)
                          ELSE analyze_unbound_type_without_type_info(
                                   t, sym, defining_literal, st2))
       ELSE visit_missing_symbol(t, st)

\* visit_unbound_type without its test of t.optional.
visit_unbound_type_unwrapped(t, defining_literal, st) ==
    visit_unbound_type_nonoptional(t, defining_literal, st)

visit_unbound_type(t, defining_literal, st) ==
    Then(visit_unbound_type_nonoptional(t, defining_literal, st),
         LAMBDA typ, st1 : R(IF t.optional THEN make_optional_type(typ) ELSE typ, st1))

\* get_type_vars of mypy.types: does the type contain a type variable?
RECURSIVE has_type_vars(_)
has_type_vars(t) ==
    CASE t.k = "TypeVarType" -> TRUE
      [] t.k \in {"Instance", "UnboundType", "PlaceholderType"} ->
            \E i \in 1..Len(t.args) : has_type_vars(t.args[i])
      [] t.k \in {"UnionType", "TupleType", "TypeList"} ->
            \E i \in 1..Len(t.items) : has_type_vars(t.items[i])
      [] t.k = "TypedDictType" ->
            \E i \in 1..Len(t.item_types) : has_type_vars(t.item_types[i])
      [] t.k = "CallableType" ->
            \/ \E i \in 1..Len(t.arg_types) : has_type_vars(t.arg_types[i])
            \/ has_type_vars(t.ret_type)
      [] t.k = "TypeType" -> has_type_vars(t.item)
      [] t.k = "StarType" -> has_type_vars(t.type)
      [] OTHER -> FALSE

-----------------------------------------------------------------------------
(* Callable[...] and Literal[...] *)

\* ARG_KINDS_BY_CONSTRUCTOR of mypy.nodes, restricted to the names of the model.
ARG_KINDS_BY_CONSTRUCTOR ==
    [f \in {"mypy_extensions.DefaultArg", "mypy_extensions.VarArg"} |->
        IF f = "mypy_extensions.DefaultArg" THEN "ARG_OPT" ELSE "ARG_STAR"]

\* analyze_callable_args if it took every entry for a plain positional one.
analyze_callable_args_positional(arglist, i, args, kinds, names, st) ==
    R([ok |-> TRUE,
       args |-> [j \in 1..Len(arglist.items) |->
                    IF arglist.items[j].k = "CallableArgument" THEN arglist.items[j].typ
                    ELSE arglist.items[j]],
       kinds |-> [j \in 1..Len(arglist.items) |-> "ARG_POS"],
       names |-> [j \in 1..Len(arglist.items) |-> ""]],
      st)

\* The loop of analyze_callable_args from item i on; the name "" and the
\* constructor "" stand for None.  The result is None (ok unset) or the three
\* lists.  check_arg_names and check_arg_kinds only report.
analyze_callable_args(arglist, i, args, kinds, names, st) ==
    IF i > Len(arglist.items)
    THEN R([ok |-> TRUE, args |-> args, kinds |-> kinds, names |-> names], st)
    ELSE IF arglist.items[i].k = "CallableArgument"
    THEN IF arglist.items[i].constructor = "" THEN R([ok |-> FALSE], st)
         ELSE IF ~lookup_qualified(arglist.items[i].constructor).present
         THEN R([ok |-> FALSE], st)
         ELSE IF lookup_qualified(arglist.items[i].constructor).node.fullname
                    \notin DOMAIN ARG_KINDS_BY_CONSTRUCTOR
         THEN R([ok |-> FALSE], fail(st, "Invalid argument constructor"))
         ELSE IF /\ arglist.items[i].name # ""
                 /\ ARG_KINDS_BY_CONSTRUCTOR[
                        lookup_qualified(arglist.items[i].constructor).node.fullname]
                      \in {"ARG_STAR", "ARG_STAR2"}
         THEN R([ok |-> FALSE], fail(st, "arguments should not have names"))
         ELSE analyze_callable_args(
                  arglist, i + 1, Append(args, arglist.items[i].typ),
                  Append(kinds, ARG_KINDS_BY_CONSTRUCTOR[
                      lookup_qualified(arglist.items[i].constructor).node.fullname]),
                  Append(names, arglist.items[i].name), st)
    ELSE analyze_callable_args(arglist, i + 1, Append(args, arglist.items[i]),
                               Append(kinds, "ARG_POS"), Append(names, ""), st)

analyze_callable_type(t, st) ==
    Then(named_type("builtins.function", <<>>, st),
         LAMBDA fallback, st1 :
            IF Len(t.args) = 0
            THEN Then(get_omitted_any(disallow_any, t, "", NoneVal, st1),
                      LAMBDA any_type, st2 :
                         accept(CallableType(<<any_type, any_type>>,
                                             <<"ARG_STAR", "ARG_STAR2">>, <<"", "">>,
                                             any_type, fallback, <<>>, TRUE),
                                st2))
            ELSE IF Len(t.args) = 2
            THEN IF t.args[1].k = "TypeList"
                 THEN Then(analyze_callable_args(t.args[1], 1, <<>>, <<>>, <<>>, st1),
                           LAMBDA analyzed_args, st2 :
                              IF ~analyzed_args.ok THEN R(AnyType("from_error"), st2)
                              ELSE accept(CallableType(analyzed_args.args,
                                                       analyzed_args.kinds,
                                                       analyzed_args.names, t.args[2],
                                                       fallback, <<>>, FALSE),
                                          st2))
                 ELSE IF t.args[1].k = "EllipsisType"
                 THEN accept(CallableType(<<AnyType("explicit"), AnyType("explicit")>>,
                                          <<"ARG_STAR", "ARG_STAR2">>, <<"", "">>,
                                          t.args[2], fallback, <<>>, TRUE),
                             st1)
                 ELSE R(AnyType("from_error"),
                        fail(st1, "The first argument to Callable must be a list of types or \"...\""))
            ELSE R(AnyType("from_error"),
                   fail(st1, "Please use \"Callable[[<parameters>], <return type>]\" or \"Callable\"")))

\* analyze_literal_param: None (ok unset) or the literal types of one
\* parameter.  named_type_with_normalized_str under Python 3 reads
\* builtins.unicode as builtins.str.  No Instance of the model carries a
\* last_known_value.
analyze_literal_param(idx, arg, st) ==
    LET normalized(name) == IF name = "builtins.unicode" THEN "builtins.str" ELSE name
    IN IF arg.k = "UnboundType" /\ arg.original_str_expr.k # "<None>"
       THEN Then(named_type(normalized(arg.original_str_fallback), <<>>, st),
                 LAMBDA fallback, st1 :
                    R([ok |-> TRUE,
                       types |-> <<LiteralType(arg.original_str_expr, fallback)>>], st1))
       ELSE Then(IF arg.k = "UnboundType"
                 THEN anal_type_finally(TRUE,
                          visit_unbound_type(arg, TRUE,
                                             [st EXCEPT !.nesting_level = @ + 1]))
                 ELSE R(arg, st),
                 LAMBDA a, st1 :
                    CASE a.k = "AnyType" ->
                           R([ok |-> FALSE],
                             IF a.type_of_any \notin {"from_error", "special_form"}
                             THEN fail(st1, "Parameter " \o ToString(idx)
                                            \o " of Literal[...] cannot be of type \"Any\"")
                             ELSE st1)
                      [] a.k = "RawExpressionType" ->
                           IF a.literal_value.k = "<None>"
                           THEN R([ok |-> FALSE],
                                  IF a.base_type_name = "builtins.float"
                                  THEN fail(st1, "Parameter " \o ToString(idx)
                                                 \o " of Literal[...] cannot be of type \"float\"")
                                  ELSE IF a.base_type_name = "builtins.complex"
                                  THEN fail(st1, "Parameter " \o ToString(idx)
                                                 \o " of Literal[...] cannot be of type \"complex\"")
                                  ELSE fail(st1, "Invalid type: Literal[...] cannot contain arbitrary expressions"))
                           ELSE Then(named_type(normalized(a.base_type_name), <<>>, st1),
                                     LAMBDA fallback, st2 :
                                        R([ok |-> TRUE,
                                           types |-> <<LiteralType(a.literal_value,
                                                                   fallback)>>],
                                          st2))
                      [] a.k \in {"NoneType", "LiteralType"} ->
                           R([ok |-> TRUE, types |-> <<a>>], st1)
                      [] a.k = "UnionType" ->
                           IF a.items = <<>> THEN R([ok |-> TRUE, types |-> <<>>], st1)
                           ELSE Then(analyze_literal_param(idx, a.items[1], st1),
                                     LAMBDA union_result, st2 :
                                        IF ~union_result.ok THEN R([ok |-> FALSE], st2)
                                        ELSE Then(analyze_literal_param(
                                                      idx, [a EXCEPT !.items = Tail(@)],
                                                      st2),
                                                  LAMBDA out, st3 :
                                                     IF ~out.ok THEN R([ok |-> FALSE], st3)
                                                     ELSE R([ok |-> TRUE,
                                                             types |-> union_result.types
                                                                       \o out.types],
                                                            st3)))
                      [] OTHER ->
                           R([ok |-> FALSE],
                             fail(st1, "Parameter " \o ToString(idx)
                                       \o " of Literal[...] is invalid")))

\* analyze_literal_type if it left an invalid parameter out of the union.
analyze_literal_type_from_partial(t, i, output, st) ==
    IF i > Len(t.args) THEN R(make_union(output), st)
    ELSE Then(analyze_literal_param(i, t.args[i], st),
              LAMBDA analyzed_types, st1 :
                 analyze_literal_type_from(
                     t, i + 1,
                     IF analyzed_types.ok THEN output \o analyzed_types.types ELSE output,
                     st1))

\* The loop of analyze_literal_type from parameter i on.
analyze_literal_type_from(t, i, output, st) ==
    IF i > Len(t.args) THEN R(make_union(output), st)
    ELSE Then(analyze_literal_param(i, t.args[i], st),
              LAMBDA analyzed_types, st1 :
                 IF ~analyzed_types.ok THEN R(AnyType("from_error"), st1)
                 ELSE analyze_literal_type_from(t, i + 1,
                                                output \o analyzed_types.types, st1))

analyze_literal_type(t, st) ==
    IF Len(t.args) = 0
    THEN R(AnyType("from_error"),
           fail(st, "Literal[...] must have at least one parameter"))
    ELSE analyze_literal_type_from(t, 1, <<>>, st)

try_analyze_special_unbound_type(t, fullname, st) ==
    CASE fullname = "builtins.None" -> R(NoneType, st)
      [] fullname \in {"typing.Any", "builtins.Any"} -> R(AnyType("explicit"), st)
      [] fullname \in {"typing.Final", "typing_extensions.Final"} ->
            R(AnyType("from_error"),
              fail(st, "Final can be only used as an outermost qualifier"))
      [] fullname = "typing.Tuple" ->
            LET sym == lookup_fully_qualified_or_none("builtins.tuple")
            IN IF ~sym.present \/ sym.node.kind = "PlaceholderNode"
               THEN R(AnyType("special_form"),
                      IF is_incomplete_namespace("builtins")
                      THEN record_incomplete_ref(st)
                      ELSE fail(st, "Name 'tuple' is not defined"))
               ELSE IF Len(t.args) = 0 /\ ~t.empty_tuple_index
               THEN Then(get_omitted_any(disallow_any, t, "", NoneVal, st),
                         LAMBDA any_type, st1 :
                            named_type("builtins.tuple", <<any_type>>, st1))
               ELSE IF Len(t.args) = 2 /\ t.args[2].k = "EllipsisType"
               THEN Then(anal_type(t.args[1], TRUE, st),
                         LAMBDA item, st1 : named_type("builtins.tuple", <<item>>, st1))
               ELSE Then(anal_array(t.args, TRUE, st),
                         LAMBDA items, st1 : tuple_type(items, st1))
      [] fullname = "typing.Union" ->
            Then(anal_array(t.args, TRUE, st),
                 LAMBDA items, st1 : R(make_union(items), st1))
      [] fullname = "typing.Optional" ->
            IF Len(t.args) # 1
            THEN R(AnyType("from_error"),
                   fail(st, "Optional[...] must have exactly one type argument"))
            ELSE Then(anal_type(t.args[1], TRUE, st),
                      LAMBDA item, st1 : R(make_optional_type(item), st1))
      [] fullname = "typing.Callable" -> analyze_callable_type(t, st)
      [] fullname = "typing.Type" ->
            IF Len(t.args) = 0
            THEN Then(get_omitted_any(disallow_any, t, "", NoneVal, st),
                      LAMBDA any_type, st1 : R(TypeType(any_type), st1))
            ELSE Then(anal_type(t.args[1], TRUE,
                                IF Len(t.args) # 1
                                THEN fail(st, "Type[...] must have exactly one type argument")
                                ELSE st),
                      LAMBDA item, st1 : R(make_normalized(item), st1))
      [] fullname = "typing.ClassVar" ->
            LET st1 == IF st.nesting_level > 0
                       THEN fail(st, "Invalid type: ClassVar nested inside other type")
                       ELSE st
            IN IF Len(t.args) = 0 THEN R(AnyType("from_omitted_generics"), st1)
               ELSE IF Len(t.args) # 1
               THEN R(AnyType("from_error"),
                      fail(st1, "ClassVar[...] must have at most one type argument"))
               ELSE Then(anal_type(t.args[1], TRUE, st1),
                         LAMBDA item, st2 :
                            IF has_type_vars(item)
                            THEN R(AnyType("from_error"),
                                   fail(st2, "Invalid type: ClassVar cannot be generic"))
                            ELSE R(item, st2))
      [] fullname \in {"mypy_extensions.NoReturn", "typing.NoReturn"} ->
            R(NoReturnType, st)
      [] fullname \in {"typing_extensions.Literal", "typing.Literal"} ->
            analyze_literal_type(t, st)
      [] fullname = "typing_extensions.Annotated" ->
            IF Len(t.args) < 2
            THEN R(AnyType("from_error"),
                   fail(st, "Annotated[...] must have exactly one type argument and at least one annotation"))
            ELSE anal_type(t.args[1], TRUE, st)
      [] OTHER -> R(NoneVal, st)

analyze_type_with_type_info(info, args, st) ==
    IF Len(args) > 0 /\ info.fullname = "builtins.tuple"
    THEN Then(anal_array(args, TRUE, st),
              LAMBDA items, st1 :
                 R(TupleType(items, Instance(info.fullname, <<AnyType("special_form")>>),
                             FALSE),
                   st1))
    ELSE
    Then(anal_array(args, TRUE, st),
         LAMBDA an_args, st1 :
    Then(IF Len(an_args) # Len(info.type_vars) /\ ~self.defining_alias
         THEN fix_instance(Instance(info.fullname, an_args), disallow_any, FALSE,
                           NoneVal, st1)
         ELSE R(Instance(info.fullname, an_args), st1),
         LAMBDA instance, st2 :
            IF info.tuple_type # NoneVal
            THEN IF args # <<>>
                 THEN R(AnyType("from_error"),
                        fail(st2, "Generic tuple types not supported"))
                 ELSE Then(anal_array(info.tuple_type.items, TRUE, st2),
                           LAMBDA items, st3 :
                              R([info.tuple_type EXCEPT !.items = items,
                                                        !.partial_fallback = instance],
                                st3))
            ELSE IF info.typeddict_type # NoneVal
            THEN IF args # <<>>
                 THEN R(AnyType("from_error"),
                        fail(st2, "Generic TypedDict types not supported"))
                 ELSE Then(anal_array(info.typeddict_type.item_types, TRUE, st2),
                           LAMBDA items, st3 :
                              R([info.typeddict_type EXCEPT !.item_types = items,
                                                            !.fallback = instance],
                                st3))
            ELSE R(instance, st2)))

\* The give-up path as the prose describes it: an error type is returned.
report_not_a_type_unknown(t, node, unbound_tvar, st) ==
    R(AnyType("from_error"), fail(st, "Cannot interpret reference as a type"))

\* analyze_unbound_type_without_type_info, none of the options worked: the
\* arguments are analysed, the misuse is reported and the reference is returned
report_not_a_type(t, node, unbound_tvar, st) ==
    Then(anal_array(t.args, TRUE, st),
         LAMBDA args, st1 :
            R([t EXCEPT !.args = args],
              CASE node.kind = "Var" ->
                     fail(st1, "Variable is not valid as a type")
                [] node.kind = "FuncDef" ->
                     note(fail(st1, "Function is not valid as a type"),
                          "Perhaps you need Callable[...] or a callback protocol?")
                [] node.kind = "MypyFile" ->
                     fail(st1, "Module is not valid as a type")
                [] unbound_tvar ->
                     note(note(fail(st1, "Type variable is unbound"),
                               "(Hint: Use Generic[T] or Protocol[T] base class)"),
                          "(Hint: Use T in function signature)")
                [] OTHER -> fail(st1, "Cannot interpret reference as a type")))

analyze_unbound_type_without_type_info(t, sym, defining_literal, st) ==
    LET node == sym.node
        unbound_tvar == node.kind = "TypeVarExpr"
                        /\ get_binding(st.tvar_scope, node.fullname) = NoneVal
    IN IF node.kind = "Var" /\ node.type.k = "AnyType"
       THEN R(AnyType("from_unimported_type"), st)
       ELSE IF self.allow_unbound_tvars /\ unbound_tvar THEN R(t, st)
       ELSE IF node.kind = "Var" /\ node.info # NoneVal /\ node.info.is_enum
       THEN IF ~defining_literal
            THEN R(AnyType("from_error"),
                   fail(st, "Invalid type: try using Literal[E.x] instead?"))
            ELSE R(LiteralType(node.fullname, Instance(node.info.fullname, <<>>)), st)
       ELSE report_not_a_type(t, node, unbound_tvar, st)

-----------------------------------------------------------------------------
(* Binding the type variables of a callable *)

\* remove_dups: the unique elements in order of appearance
RECURSIVE remove_dups(_)
remove_dups(tvars) ==
    IF tvars = <<>> THEN <<>>
    ELSE LET init == remove_dups(SubSeq(tvars, 1, Len(tvars) - 1))
             last == tvars[Len(tvars)]
         IN IF \E i \in 1..Len(init) : init[i] = last THEN init ELSE Append(init, last)

RECURSIVE chain(_)
chain(ll) == IF ll = <<>> THEN <<>> ELSE ll[1] \o chain(Tail(ll))

flatten_tvars(ll) == remove_dups(chain(ll))

\* class TypeVariableQuery: the (name, TypeVarExpr) pairs of the free type variables of t
RECURSIVE TypeVariableQuery(_, _, _)
TypeVariableQuery(t, tvar_scope, include_callables) ==
    LET query_types(types) ==
            flatten_tvars([i \in 1..Len(types) |->
                              TypeVariableQuery(types[i], tvar_scope, include_callables)])
    IN CASE t.k = "UnboundType" ->
              LET node == lookup_qualified(t.name)
              IN IF node.present /\ node.node.kind = "TypeVarExpr"
                    /\ get_binding(tvar_scope, node.node.fullname) = NoneVal
                 THEN << <<t.name, node.node.fullname>> >>
                 ELSE IF ~include_callables /\ t.args # <<>>
                         /\ t.args[1].k \in {"EllipsisType", "TypeList"}
                 THEN <<>>
                 ELSE IF node.present /\ node.node.kind # "None"
                         /\ node.node.fullname \in {"typing_extensions.Literal",
                                                    "typing.Literal"}
                 THEN <<>>
                 ELSE query_types(t.args)
         [] t.k = "CallableType" ->
              IF include_callables THEN query_types(Append(t.arg_types, t.ret_type))
              ELSE <<>>
         [] t.k \in {"Instance", "PlaceholderType"} -> query_types(t.args)
         [] t.k \in {"UnionType", "TupleType", "TypeList"} -> query_types(t.items)
         [] t.k = "TypedDictType" -> query_types(t.item_types)
         [] t.k = "TypeType" -> TypeVariableQuery(t.item, tvar_scope, include_callables)
         [] t.k = "StarType" -> TypeVariableQuery(t.type, tvar_scope, include_callables)
         [] t.k = "CallableArgument" ->
              TypeVariableQuery(t.typ, tvar_scope, include_callables)
         [] OTHER -> <<>>

\* infer_type_variables if it looked inside the callables of the return type.
infer_type_variables_including_callables(type, tvar_scope) ==
    remove_dups(chain([i \in 1..Len(type.arg_types) |->
                          TypeVariableQuery(type.arg_types[i], tvar_scope, TRUE)])
                \o TypeVariableQuery(type.ret_type, tvar_scope, TRUE))

infer_type_variables(type, tvar_scope) ==
    remove_dups(chain([i \in 1..Len(type.arg_types) |->
                          TypeVariableQuery(type.arg_types[i], tvar_scope, TRUE)])
                \o TypeVariableQuery(type.ret_type, tvar_scope, FALSE))

is_defined_type_var(tvar, tvar_scope) ==
    LET tvar_node == lookup_qualified(tvar)
    IN IF ~tvar_node.present THEN FALSE
       ELSE tvar_node.node.kind # "None"
            /\ get_binding(tvar_scope, tvar_node.node.fullname) # NoneVal

\* bind_function_type_variables, the callable carries its variables
RECURSIVE bind_declared_variables(_, _, _)
bind_declared_variables(variables, i, st) ==
    IF i > Len(variables) THEN R(variables, st)
    ELSE LET var_node == lookup_qualified(variables[i].name)
         IN IF ~var_node.present THEN Raise(st)
            ELSE IF var_node.node.kind # "TypeVarExpr" THEN Raise(st)
            ELSE bind_declared_variables(variables, i + 1,
                    [st EXCEPT !.tvar_scope = bind_new(@, variables[i].name, var_node.node)])

\* bind_function_type_variables, the variables are inferred
RECURSIVE bind_inferred_variables(_, _, _, _)
bind_inferred_variables(typevars, i, defs, st) ==
    IF i > Len(typevars) THEN R(defs, st)
    ELSE LET name == typevars[i][1]
             tvar == TypeVarExpr(typevars[i][2])
             st1 == IF ~allow_binding(st.tvar_scope, tvar.fullname)
                    THEN fail(st, "Type variable is bound by an outer class")
                    ELSE st
             st2 == [st1 EXCEPT !.tvar_scope = bind_new(@, name, tvar)]
             binding == get_binding(st2.tvar_scope, tvar.fullname)
         IN bind_inferred_variables(typevars, i + 1, Append(defs, binding), st2)

bind_function_type_variables(fun_type, st) ==
    IF fun_type.variables # <<>>
    THEN bind_declared_variables(fun_type.variables, 1, st)
    ELSE LET typevars == SelectSeq(infer_type_variables(fun_type, st.tvar_scope),
                                   LAMBDA p : ~is_defined_type_var(p[1], st.tvar_scope))
         IN bind_inferred_variables(typevars, 1, <<>>, st)

anal_var_defs_from(var_defs, i, a, st) ==
    IF i > Len(var_defs) THEN R(a, st)
    ELSE Then(anal_array(var_defs[i].values, TRUE, st),
              LAMBDA values, st1 :
         Then(accept(var_defs[i].upper_bound, st1),
              LAMBDA upper_bound, st2 :
                 anal_var_defs_from(var_defs, i + 1,
                     Append(a, TypeVarDef(var_defs[i].name, var_defs[i].fullname,
                                          var_defs[i].id, values, upper_bound)),
                     st2)))

anal_var_defs(var_defs, st) == anal_var_defs_from(var_defs, 1, <<>>, st)

\* tvar_scope_frame, up to the yield: a method frame becomes the scope
tvar_scope_frame_enter(st) == [st EXCEPT !.tvar_scope = method_frame(@)]

\* tvar_scope_frame, after the yield: reached only if the body did not raise
tvar_scope_frame_exit(old_scope, st) ==
    IF st.raised THEN st ELSE [st EXCEPT !.tvar_scope = old_scope]

\* tvar_scope_frame around the body of a with statement
tvar_scope_frame(old_scope, body) ==
    R(body.res, tvar_scope_frame_exit(old_scope, body.st))

visit_callable_type(t, nested, st) ==
    tvar_scope_frame(st.tvar_scope,
        Then(IF self.defining_alias THEN R(t.variables, tvar_scope_frame_enter(st))
             ELSE bind_function_type_variables(t, tvar_scope_frame_enter(st)),
             LAMBDA variables, st1 :
        Then(anal_array(t.arg_types, nested, st1),
             LAMBDA arg_types, st2 :
        Then(anal_type(t.ret_type, nested, st2),
             LAMBDA ret_type, st3 :
        Then(IF t.fallback # NoneVal THEN R(t.fallback, st3)
             ELSE named_type("builtins.function", <<>>, st3),
             LAMBDA fallback, st4 :
        Then(anal_var_defs(variables, st4),
             LAMBDA var_defs, st5 :
                R([t EXCEPT !.arg_types = arg_types,
                            !.ret_type = ret_type,
                            !.fallback = fallback,
                            !.variables = var_defs],
                  st5)))))))

-----------------------------------------------------------------------------
(* The visitor's other cases *)

\* visit_tuple_type if it took every tuple for one written without Tuple[...].
visit_tuple_type_implicit(t, st) ==
    R(AnyType("from_error"), fail(st, "Syntax error in type annotation"))

visit_tuple_type(t, st) ==
    IF t.implicit /\ ~self.allow_tuple_literal
    THEN R(AnyType("from_error"),
           note(fail(st, "Syntax error in type annotation"),
                IF Len(t.items) = 1 THEN "Suggestion: Is there a spurious trailing comma?"
                ELSE "Suggestion: Use Tuple[T1, ..., Tn] instead of (T1, ..., Tn)"))
    ELSE IF Cardinality({i \in 1..Len(t.items) : t.items[i].k = "StarType"}) > 1
    THEN IF t.implicit
         THEN Then(named_type("builtins.tuple", <<>>,
                              fail(st, "At most one star type allowed in a tuple")),
                   LAMBDA fallback, st1 :
                      R(TupleType([i \in 1..Len(t.items) |-> AnyType("from_error")],
                                  fallback, FALSE),
                        st1))
         ELSE R(AnyType("from_error"), fail(st, "At most one star type allowed in a tuple"))
    ELSE Then(IF t.partial_fallback # NoneVal THEN R(t.partial_fallback, st)
              ELSE named_type("builtins.tuple", <<AnyType("special_form")>>, st),
              LAMBDA fallback, st1 :
         Then(anal_array(t.items, TRUE, st1),
              LAMBDA items, st2 : R(TupleType(items, fallback, FALSE), st2)))

visit_typeddict_type(t, st) ==
    Then(anal_array(t.item_types, TRUE, st),
         LAMBDA items, st1 :
            R(TypedDictType(t.names, items, t.required_keys, t.fallback), st1))

visit_raw_expression_type(t, st) ==
    R(AnyType("from_error"),
      IF self.report_invalid_types
      THEN IF t.base_type_name \in {"builtins.int", "builtins.bool"}
           THEN fail(st, "Invalid type: try using Literal[...] instead?")
           ELSE IF t.base_type_name \in {"builtins.float", "builtins.complex"}
           THEN fail(st, "Invalid type: float literals cannot be used as a type")
           ELSE fail(st, "Invalid type comment or annotation")
      ELSE st)

\* visit_placeholder_type if it never looked the name up again.
visit_placeholder_type_deferring(t, st) == R(t, defer(st))

visit_placeholder_type(t, st) ==
    LET n == lookup_fully_qualified_or_none(t.fullname)
    IN IF ~n.present \/ n.node.kind = "PlaceholderNode"
       THEN R(t, defer(st))
       ELSE IF n.node.kind # "TypeInfo" THEN Raise(st)
       ELSE analyze_type_with_type_info(n.node, t.args, st)

\* visit_union_type if it kept the analysed items as they are.
visit_union_type_nested(t, st) ==
    Then(anal_array(t.items, TRUE, st),
         LAMBDA items, st1 : R([k |-> "UnionType", items |-> items], st1))

visit_union_type(t, st) ==
    Then(anal_array(t.items, TRUE, st),
         LAMBDA items, st1 : R(UnionType(items), st1))

accept(t, st) ==
    CASE t.k = "UnboundType" -> visit_unbound_type(t, FALSE, st)
      [] t.k \in {"AnyType", "NoneType", "UninhabitedType", "DeletedType", "Instance",
                  "TypeVarType", "LiteralType"} -> R(t, st)
      [] t.k = "TypeList" ->
            R(AnyType("from_error"),
              note(fail(st, "Bracketed expression [...] is not valid as a type"),
                   "Did you mean List[...]?"))
      [] t.k = "CallableArgument" -> R(AnyType("from_error"), fail(st, "Invalid type"))
      [] t.k = "CallableType" -> visit_callable_type(t, TRUE, st)
      [] t.k = "TupleType" -> visit_tuple_type(t, st)
      [] t.k = "TypedDictType" -> visit_typeddict_type(t, st)
      [] t.k = "RawExpressionType" -> visit_raw_expression_type(t, st)
      [] t.k = "StarType" ->
            Then(anal_type(t.type, TRUE, st), LAMBDA type, st1 : R(StarType(type), st1))
      [] t.k = "UnionType" -> visit_union_type(t, st)
      [] t.k = "PartialType" -> Raise(st)
      [] t.k = "EllipsisType" -> R(AnyType("from_error"), fail(st, "Unexpected '...'"))
      [] t.k = "TypeType" ->
            Then(anal_type(t.item, TRUE, st),
                 LAMBDA item, st1 : R(make_normalized(item), st1))
      [] t.k = "PlaceholderType" -> visit_placeholder_type(t, st)

\* analyze_type: a fresh analyzer visits t
analyze_type(t) == accept(t, NewState(scope0))

-----------------------------------------------------------------------------
(* The units the driver hands to the analyzer *)

\* The sequences over S of length at most n.
RECURSIVE SeqsUpTo(_, _)
SeqsUpTo(S, n) ==
    IF n = 0 THEN {<<>>}
    ELSE LET shorter == SeqsUpTo(S, n - 1)
         IN shorter \cup {Append(q, x) : q \in shorter, x \in S}

\* The type expressions written as arguments.
ArgTypes == {UnboundType(n, <<>>) : n \in {"C", "G", "P"}}

ArgLists == SeqsUpTo(ArgTypes, MaxArgs)

\* Named references: any name in scope or the undefined name X, with arguments.
References == {UnboundType(n, args) : n \in DOMAIN Scope \cup {"X"}, args \in ArgLists}

\* Signatures as parsed: the fallback is not filled in, no variables are declared.
Signatures ==
    {CallableType(args, [i \in 1..Len(args) |-> "ARG_POS"],
                  [i \in 1..Len(args) |-> ""], ret, NoneVal, <<>>, FALSE) :
        args \in SeqsUpTo(ArgTypes \cup {UnboundType("T", <<>>)}, MaxArgs),
        ret \in {UnboundType("C", <<>>), UnboundType("T", <<>>)}}

Units == References \cup Signatures

\* The flags and options a TypeAnalyser is constructed with.
Analyzers ==
    {[defining_alias |-> da, allow_placeholder |-> ap,
      allow_unbound_tvars |-> au \/ da, allow_tuple_literal |-> FALSE,
      allow_unnormalized |-> FALSE, report_invalid_types |-> TRUE,
      disallow_any_generics |-> dg, is_typeshed_stub |-> FALSE] :
        da \in BOOLEAN, ap \in BOOLEAN, au \in BOOLEAN, dg \in BOOLEAN}

-----------------------------------------------------------------------------
(* The symbol table of the module, and how the driver completes it *)

\* A = G[T] is a generic alias, B = G a bare one; their targets were fixed up
\* when they were defined.
InitSymtab ==
    [f \in FullNames |->
        CASE f \in {"m.C", "m.G", "m.H", "m.NT", "m.TD", "builtins.function",
                    "builtins.object", "builtins.int", "builtins.str"} -> Sym(Classes[f])
          [] f = "m.E.RED" -> Sym(Var(f, NoneVal, Classes["m.E"]))
          [] f \in {"mypy_extensions.DefaultArg", "mypy_extensions.VarArg"} ->
                Sym(FuncDef(f))
          [] f \in {"m.P", "builtins.tuple"} -> Sym(PlaceholderNode(f, TRUE))
          [] f = "m.Q" -> Sym(PlaceholderNode(f, FALSE))
          [] f = "m.A" ->
                Sym(TypeAlias(f, Instance("m.G", <<UnboundType("T", <<>>)>>), <<"T">>,
                              FALSE))
          [] f = "m.B" ->
                Sym(TypeAlias(f, Instance("m.G", <<AnyType("from_omitted_generics")>>),
                              <<>>, TRUE))
          [] f = "m.v" -> Sym(Var(f, Instance("m.C", <<>>), NoneVal))
          [] f = "m.w" -> Sym(Var(f, AnyType("from_unimported_type"), NoneVal))
          [] f = "m.f" -> Sym(FuncDef(f))
          [] f = "m.mod" -> Sym(MypyFile(f))
          [] f \in {"m.T", "m.S", "m.U"} -> Sym(TypeVarExpr(f))
          [] f = "m.N" -> Sym(NoNode)
          [] OTHER -> Sym(Var(f, NoneVal, NoneVal))]

\* The scope the analyzer starts in binds S (the enclosing class is generic in S).
InitScope == bind_new(<<Frame({}, 0)>>, "S", TypeVarExpr("m.S"))

\* Does the type hold a PlaceholderType?
RECURSIVE has_placeholder(_)
has_placeholder(t) ==
    CASE t.k = "PlaceholderType" -> TRUE
      [] t.k \in {"Instance", "UnboundType"} ->
            \E i \in 1..Len(t.args) : has_placeholder(t.args[i])
      [] t.k \in {"UnionType", "TupleType"} ->
            \E i \in 1..Len(t.items) : has_placeholder(t.items[i])
      [] t.k = "TypedDictType" ->
            \E i \in 1..Len(t.item_types) : has_placeholder(t.item_types[i])
      [] t.k = "CallableType" ->
            \/ \E i \in 1..Len(t.arg_types) : has_placeholder(t.arg_types[i])
            \/ has_placeholder(t.ret_type)
      [] t.k = "TypeType" -> has_placeholder(t.item)
      [] OTHER -> FALSE

Called(st, ev) == \E i \in 1..Len(st.calls) : st.calls[i].ev = ev

\* The unit asked for another pass.
Incomplete(st) == Called(st, "defer") \/ Called(st, "record_incomplete_ref")

Init ==
    /\ symtab = InitSymtab
    /\ incomplete = {"builtins"}
    /\ final_iteration = FALSE
    /\ pass = 1
    /\ pc = "todo"
    /\ self \in Analyzers
    /\ scope0 = InitScope
    /\ expr \in Units
    /\ inp = expr
    /\ result = NoneVal
    /\ after = NewState(InitScope)
    /\ deferred = FALSE

\* The analyzer of this pass visits the unit.
Analyze ==
    /\ pc = "todo"
    /\ \E r \in {analyze_type(inp)} :
          /\ result' = r.res
          /\ after' = r.st
    /\ pc' = "done"
    /\ UNCHANGED <<symtab, incomplete, final_iteration, pass, self, scope0, expr, inp,
                   deferred>>

\* The type the analyzer returned is passed through the analyzer again, the
\* symbol table being as it was.
Reanalyze ==
    /\ pc = "done" /\ ~after.raised
    /\ \E r \in {analyze_type(result)} :
          /\ result' = r.res
          /\ after' = r.st
    /\ inp' = result
    /\ pc' = "analyze_type"
    /\ UNCHANGED <<symtab, incomplete, final_iteration, pass, self, scope0, expr,
                   deferred>>

\* Before the unit's turn in a later pass, the driver finishes the builtins module.
CompleteBuiltins ==
    /\ pc = "todo" /\ pass > 1 /\ ~final_iteration
    /\ "builtins" \in incomplete
    /\ incomplete' = {}
    /\ symtab' = [symtab EXCEPT !["builtins.tuple"] = Sym(Classes["builtins.tuple"])]
    /\ UNCHANGED <<final_iteration, pass, pc, self, scope0, expr, inp, result, after,
                   deferred>>

\* Before the unit's turn in a later pass, the driver reaches the class definition
\* the placeholder P stood for.
DefineClass ==
    /\ pc = "todo" /\ pass > 1 /\ ~final_iteration
    /\ symtab["m.P"].node.kind = "PlaceholderNode"
    /\ symtab' = [symtab EXCEPT !["m.P"] = Sym(Classes["m.P"])]
    /\ UNCHANGED <<incomplete, final_iteration, pass, pc, self, scope0, expr, inp,
                   result, after, deferred>>

\* The definition the placeholder P stood for turns out to be an alias, P = G[C].
DefineAlias ==
    /\ pc = "todo" /\ pass > 1 /\ ~final_iteration
    /\ symtab["m.P"].node.kind = "PlaceholderNode"
    /\ symtab' = [symtab EXCEPT !["m.P"] =
            Sym(TypeAlias("m.P", Instance("m.G", <<Instance("m.C", <<>>)>>), <<>>, FALSE))]
    /\ UNCHANGED <<incomplete, final_iteration, pass, pc, self, scope0, expr, inp,
                   result, after, deferred>>

\* The driver starts another pass over the unit: it analyses the expression again,
\* or the type it kept from the last pass if that holds a placeholder.  A pass
\* that made no progress is followed by the final one, for which the driver
\* declares every namespace complete.
NextPass(final, again) ==
    /\ pc = "done" /\ ~final_iteration /\ pass < MaxPass /\ Incomplete(after)
    /\ ~after.raised
    /\ again \/ has_placeholder(result)
    /\ pass' = pass + 1
    /\ final_iteration' = final
    /\ incomplete' = IF final THEN {} ELSE incomplete
    /\ inp' = IF again THEN expr ELSE result
    /\ deferred' = (deferred \/ (result.k = "PlaceholderType" /\ Called(after, "defer")))
    /\ pc' = "todo"
    /\ UNCHANGED <<symtab, self, scope0, expr, result, after>>

Next ==
    \/ Analyze
    \/ Reanalyze
    \/ CompleteBuiltins
    \/ DefineClass
    \/ DefineAlias
    \/ \E final \in BOOLEAN, again \in BOOLEAN : NextPass(final, again)

Spec == Init /\ [][Next]_vars

-----------------------------------------------------------------------------
(* What the properties below speak about *)

\* The calls made for the reference itself, not for its arguments.
OwnCalls(st) == SelectSeq(st.calls, LAMBDA c : c.lvl = 0)

Events(calls) == [i \in 1..Len(calls) |-> calls[i].ev]

\* The unit just analysed is a named reference.
NamedReference == pc = "done" /\ inp.k = "UnboundType"

InpSym == lookup_qualified(inp.name)

\* The named reference's symbol is a placeholder node.
PlaceholderReference ==
    NamedReference /\ InpSym.present /\ InpSym.node.kind = "PlaceholderNode"

CannotResolve ==
    [ev |-> "fail", msg |-> "Cannot resolve name (possible cyclic definition)", lvl |-> 0]

\* No type expression is left among the types.
Resolved(types) == \A i \in 1..Len(types) : types[i].k # "UnboundType"

\* Every Instance in the type has as many arguments as its class has type variables.
RECURSIVE AllInstancesFixed(_)
AllInstancesFixed(t) ==
    CASE t.k = "Instance" ->
            /\ Len(t.args) = Len(type_vars(t.type))
            /\ \A i \in 1..Len(t.args) : AllInstancesFixed(t.args[i])
      [] t.k \in {"PlaceholderType", "UnboundType"} ->
            \A i \in 1..Len(t.args) : AllInstancesFixed(t.args[i])
      [] t.k = "UnionType" -> \A i \in 1..Len(t.items) : AllInstancesFixed(t.items[i])
      [] t.k = "TupleType" ->
            /\ \A i \in 1..Len(t.items) : AllInstancesFixed(t.items[i])
            /\ AllInstancesFixed(t.partial_fallback)
      [] t.k = "TypedDictType" ->
            /\ \A i \in 1..Len(t.item_types) : AllInstancesFixed(t.item_types[i])
            /\ AllInstancesFixed(t.fallback)
      [] t.k = "CallableType" ->
            /\ \A i \in 1..Len(t.arg_types) : AllInstancesFixed(t.arg_types[i])
            /\ AllInstancesFixed(t.ret_type)
      [] t.k = "TypeType" -> AllInstancesFixed(t.item)
      [] OTHER -> TRUE

-----------------------------------------------------------------------------
(* Totality *)

\* C1: resolution is total, the visitor returns a type and never raises.
\* Violated: a PlaceholderType kept from an earlier pass, whose name has become
\* a type alias, fails the assert of visit_placeholder_type.
C1_NeverRaises == pc = "done" => ~after.raised /\ result # NoRes

-----------------------------------------------------------------------------
(* The final pass *)

\* C2: on the final pass no resolution path calls api.defer or
\* api.record_incomplete_ref.
\* Violated: visit_placeholder_type defers whenever the name is still a
\* placeholder, whatever the pass.
C2_FinalPassSignalsNothing ==
    (pc = "done" /\ final_iteration) =>
        ~Called(after, "defer") /\ ~Called(after, "record_incomplete_ref")

\* C3: a named reference whose symbol is a placeholder node, on the final pass,
\* gives AnyType(from_error) and exactly one "Cannot resolve name" diagnostic,
\* with neither api.defer nor api.record_incomplete_ref, whatever
\* allow_placeholder and becomes_typeinfo are.
C3_FinalPlaceholderCannotResolve ==
    (PlaceholderReference /\ final_iteration) =>
        /\ result = AnyType("from_error")
        /\ after.calls = <<CannotResolve>>
        /\ ~after.raised

C3_Witness ==
    /\ PlaceholderReference /\ final_iteration
    /\ self.allow_placeholder /\ InpSym.node.becomes_typeinfo
    /\ inp.args # <<>>
    /\ result = AnyType("from_error")

-----------------------------------------------------------------------------
(* Placeholders before the final pass *)

\* C4 as stated: without allow_placeholder a placeholder reference records an
\* incomplete reference, does not defer, and is replaced by AnyType.
\* Violated: a placeholder that becomes a class gives a PlaceholderType.
C4_AsStated ==
    (PlaceholderReference /\ ~final_iteration /\ ~self.allow_placeholder) =>
        /\ Events(OwnCalls(after)) = <<"record_incomplete_ref">>
        /\ result.k = "AnyType"

\* C4: without allow_placeholder, before the final pass, a placeholder reference
\* records an incomplete reference and does not defer; the value is a
\* PlaceholderType of the placeholder's full name and the resolved arguments if
\* the placeholder becomes a class, and AnyType(special_form) otherwise.
C4_IncompleteRefRecorded ==
    (PlaceholderReference /\ ~final_iteration /\ ~self.allow_placeholder) =>
        /\ Events(OwnCalls(after)) = <<"record_incomplete_ref">>
        /\ ~after.raised
        /\ IF InpSym.node.becomes_typeinfo
           THEN /\ result.k = "PlaceholderType"
                /\ result.fullname = InpSym.node.fullname
                /\ Len(result.args) = Len(inp.args)
                /\ Resolved(result.args)
           ELSE result = AnyType("special_form")

C4_Witness ==
    /\ PlaceholderReference /\ ~final_iteration /\ ~self.allow_placeholder
    /\ InpSym.node.becomes_typeinfo
    /\ inp.args # <<>>
    /\ result.k = "PlaceholderType"

\* C5: with allow_placeholder, before the final pass, a reference to a
\* placeholder that becomes a class gives a PlaceholderType of the placeholder's
\* full name and the resolved arguments; for the reference itself api.defer is
\* called and nothing else, no api.record_incomplete_ref and no diagnostic.
C5_PlaceholderPropagated ==
    (/\ PlaceholderReference /\ ~final_iteration /\ self.allow_placeholder
     /\ InpSym.node.becomes_typeinfo) =>
        /\ result = PlaceholderType(
                        InpSym.node.fullname,
                        anal_array(inp.args, TRUE, defer(NewState(scope0))).res)
        /\ Resolved(result.args)
        /\ Events(OwnCalls(after)) = <<"defer">>
        /\ ~after.raised

C5_Witness ==
    /\ PlaceholderReference /\ ~final_iteration /\ self.allow_placeholder
    /\ InpSym.node.becomes_typeinfo
    /\ Len(inp.args) = 2
    /\ result.k = "PlaceholderType"
    /\ result.args[1].k = "Instance" /\ result.args[2].k = "PlaceholderType"

-----------------------------------------------------------------------------
(* Deferral across passes *)

\* The fully qualified name the unit's expression refers to.
ExprName == Scope[expr.name]

\* An earlier pass answered the unit with a PlaceholderType and a deferral; in
\* this pass the symbol table holds the class, and the unit was analysed again,
\* as the expression or as the PlaceholderType kept from the earlier pass.
Materialized ==
    /\ pc = "done" /\ deferred
    /\ expr.k = "UnboundType"
    /\ symtab[ExprName].node.kind = "TypeInfo"

-----------------------------------------------------------------------------
(* The type-variable scope frame *)

\* C7: after visit_callable_type exits, by return or by exception, tvar_scope
\* is the scope it was before the call.
\* Violated: tvar_scope_frame restores the scope after its yield only, so an
\* exception in the body leaves the method frame in place.
C7_ScopeRestored ==
    (pc = "done" /\ inp.k = "CallableType") => after.tvar_scope = scope0

-----------------------------------------------------------------------------
(* Names that are not types *)

\* The name resolves to a plain variable, a function, a module, or a type
\* variable that is unbound where unbound type variables are not accepted.
MisuseOfNonType ==
    /\ NamedReference /\ InpSym.present
    /\ \/ InpSym.node.kind \in {"FuncDef", "MypyFile"}
       \/ /\ InpSym.node.kind = "Var"
          /\ InpSym.node.type.k = "Instance"
          /\ InpSym.node.info = NoneVal
       \/ /\ InpSym.node.kind = "TypeVarExpr"
          /\ get_binding(scope0, InpSym.node.fullname) = NoneVal
          /\ ~self.allow_unbound_tvars

C9_MissingSymbolSilent ==
    (NamedReference /\ ~InpSym.present) =>
        /\ result = AnyType("special_form")
        /\ after.calls = <<>>
        /\ after.aliases_used = {}
        /\ ~after.raised

C9_Witness ==
    /\ NamedReference /\ ~InpSym.present
    /\ Len(inp.args) = 2
    /\ inp.args[1] = UnboundType("P", <<>>)
    /\ symtab["m.P"].node.kind = "PlaceholderNode"
    /\ inp.args[2] = UnboundType("G", <<>>)
    /\ self.disallow_any_generics
    /\ result.k = "AnyType"

-----------------------------------------------------------------------------
(* Arity *)

\* C10: when no alias target is being defined, every Instance in the type
\* returned for a named reference to a class or an alias, nested ones and those
\* of an expanded alias target included, has as many arguments as its class's
\* declared arity.
C10_InstanceArity ==
    (/\ NamedReference /\ InpSym.present
     /\ InpSym.node.kind \in {"TypeInfo", "TypeAlias"}
     /\ ~self.defining_alias
     /\ ~after.raised) =>
        AllInstancesFixed(result)

C10_Witness ==
    /\ NamedReference /\ InpSym.present
    /\ InpSym.node.kind = "TypeAlias" /\ InpSym.node.no_args
    /\ Len(inp.args) = 2
    /\ ~self.defining_alias
    /\ result.k = "Instance" /\ Len(result.args) = 1

-----------------------------------------------------------------------------
(* Arity fixup on its own: fix_instance and the InstanceFixer *)

RECURSIVE InstanceFixer_accept(_, _), InstanceFixer_accept_all(_, _, _, _)

\* InstanceFixer.visit_instance without its test of the argument count.
InstanceFixer_visit_instance_unguarded(typ, st) ==
    fix_instance(typ, FALSE, TRUE, NoneVal, st)

\* InstanceFixer.visit_instance: the arguments are traversed first.
InstanceFixer_visit_instance(typ, st) ==
    Then(InstanceFixer_accept_all(typ.args, 1, <<>>, st),
         LAMBDA args, st1 :
            IF Len(args) # Len(type_vars(typ.type))
            THEN fix_instance([typ EXCEPT !.args = args], FALSE, TRUE, NoneVal, st1)
            ELSE R([typ EXCEPT !.args = args], st1))

\* TypeTraverserVisitor.accept_all
InstanceFixer_accept_all(types, i, res, st) ==
    IF i > Len(types) THEN R(res, st)
    ELSE Then(InstanceFixer_accept(types[i], st),
              LAMBDA t, st1 : InstanceFixer_accept_all(types, i + 1, Append(res, t), st1))

\* t.accept(InstanceFixer): the traversal of TypeTraverserVisitor, which changes
\* the instances in place.
InstanceFixer_accept(t, st) ==
    CASE t.k = "Instance" -> InstanceFixer_visit_instance(t, st)
      [] t.k = "UnionType" ->
            Then(InstanceFixer_accept_all(t.items, 1, <<>>, st),
                 LAMBDA items, st1 : R([t EXCEPT !.items = items], st1))
      [] t.k = "TupleType" ->
            Then(InstanceFixer_accept_all(t.items, 1, <<>>, st),
                 LAMBDA items, st1 :
            Then(InstanceFixer_accept(t.partial_fallback, st1),
                 LAMBDA fallback, st2 :
                    R([t EXCEPT !.items = items, !.partial_fallback = fallback], st2)))
      [] t.k = "TypeType" ->
            Then(InstanceFixer_accept(t.item, st),
                 LAMBDA item, st1 : R([t EXCEPT !.item = item], st1))
      [] t.k = "CallableType" ->
            Then(InstanceFixer_accept_all(t.arg_types, 1, <<>>, st),
                 LAMBDA arg_types, st1 :
            Then(InstanceFixer_accept(t.ret_type, st1),
                 LAMBDA ret_type, st2 :
                    R([t EXCEPT !.arg_types = arg_types, !.ret_type = ret_type], st2)))
      [] OTHER -> R(t, st)

\* fix_instance_types if it fixed the type itself and nothing inside it.
fix_instance_types_shallow(t, st) ==
    IF t.k = "Instance" /\ Len(t.args) # Len(type_vars(t.type))
    THEN fix_instance(t, FALSE, TRUE, NoneVal, st)
    ELSE R(t, st)

fix_instance_types(t, st) == InstanceFixer_accept(t, st)

\* The types a class is instantiated with: fixed ones, and G as written bare.
FixArgs ==
    {Instance("m.C", <<>>), AnyType("explicit"),
     Instance("m.G", <<Instance("m.C", <<>>)>>), Instance("m.G", <<>>)}

\* Instances of the classes of arity 0, 1 and 2, as they are before the fixup,
\* and types that hold instances: with the right count of arguments, with
\* none, and with a wrong count.
FixInstances ==
    LET C == Instance("m.C", <<>>)
        held == {C, Instance("m.G", <<>>), Instance("m.G", <<C>>),
                 Instance("m.G", <<C, C>>), Instance("m.C", <<C>>),
                 Instance("m.K", <<Instance("m.G", <<C, C>>)>>),
                 Instance("m.G", <<Instance("m.K", <<C>>)>>)}
    IN {Instance(c, args) :
            c \in {"m.C", "m.G", "m.K"}, args \in SeqsUpTo(FixArgs, MaxArgs)}
       \cup {UnionType(<<a, b>>) : a \in held, b \in held}
       \cup {TupleType(<<a>>, Instance("builtins.tuple", <<>>), FALSE) : a \in held}
       \cup {TypeType(a) : a \in held}
       \cup {CallableType(<<a>>, <<"ARG_POS">>, <<"">>, b,
                          Instance("builtins.function", <<>>), <<>>, FALSE) :
                a \in held, b \in held}

InitFix ==
    /\ symtab = InitSymtab
    /\ incomplete = {}
    /\ final_iteration = FALSE
    /\ pass = 1
    /\ pc = "todo"
    /\ self \in Analyzers
    /\ scope0 = InitScope
    /\ expr \in FixInstances
    /\ inp = expr
    /\ result = NoneVal
    /\ after = NewState(InitScope)
    /\ deferred = FALSE

\* fix_instance is called on the instance, whatever its argument count.
FixInstance(use_generic_error) ==
    /\ pc = "todo" /\ inp.k = "Instance"
    /\ \E r \in {fix_instance(inp, disallow_any, use_generic_error, NoneVal,
                              NewState(scope0))} :
          /\ result' = r.res
          /\ after' = r.st
    /\ pc' = "fix_instance"
    /\ UNCHANGED <<symtab, incomplete, final_iteration, pass, self, scope0, expr, inp,
                   deferred>>

\* The analyzer builds the instance of a class from arguments already analysed.
AnalyzeWithTypeInfo ==
    /\ pc = "todo" /\ inp.k = "Instance"
    /\ \E r \in {analyze_type_with_type_info(Classes[inp.type], inp.args,
                                             NewState(scope0))} :
          /\ result' = r.res
          /\ after' = r.st
    /\ pc' = "analyze_type_with_type_info"
    /\ UNCHANGED <<symtab, incomplete, final_iteration, pass, self, scope0, expr, inp,
                   deferred>>

\* The standalone fixup visits the type.
FixInstanceTypes ==
    /\ pc = "todo"
    /\ \E r \in {fix_instance_types(inp, NewState(scope0))} :
          /\ result' = r.res
          /\ after' = r.st
    /\ pc' = "fix_instance_types"
    /\ UNCHANGED <<symtab, incomplete, final_iteration, pass, self, scope0, expr, inp,
                   deferred>>

\* The standalone fixup visits the type it has fixed once more.
FixInstanceTypesAgain ==
    /\ pc = "fix_instance_types"
    /\ \E r \in {fix_instance_types(result, NewState(scope0))} :
          /\ result' = r.res
          /\ after' = r.st
    /\ inp' = result
    /\ pc' = "fix_instance_types_again"
    /\ UNCHANGED <<symtab, incomplete, final_iteration, pass, self, scope0, expr,
                   deferred>>

NextFix ==
    \/ \E use_generic_error \in BOOLEAN : FixInstance(use_generic_error)
    \/ AnalyzeWithTypeInfo
    \/ FixInstanceTypes
    \/ FixInstanceTypesAgain

SpecFix == InitFix /\ [][NextFix]_vars

\* fix_instance has just run on inp.
Fixed == pc = "fix_instance"

\* The class's declared arity.
Arity(t) == Len(type_vars(t.type))

\* C11: fix_instance on an Instance with no arguments of a class of arity N
\* gives it exactly N filler AnyType arguments and does not mark it invalid;
\* when disallow_any is false the filler is from_omitted_generics and nothing is
\* reported, when it is true the filler is from_error and exactly one
\* diagnostic is reported.
C11_OmittedArguments ==
    (Fixed /\ Len(inp.args) = 0) =>
        /\ result.k = "Instance" /\ result.type = inp.type
        /\ ~result.invalid
        /\ Len(result.args) = Arity(inp)
        /\ \A i \in 1..Len(result.args) :
              result.args[i] = AnyType(IF disallow_any THEN "from_error"
                                       ELSE "from_omitted_generics")
        /\ Events(after.calls) = IF disallow_any THEN <<"fail">> ELSE <<>>

C11_Witness ==
    /\ Fixed /\ Len(inp.args) = 0 /\ Arity(inp) = 2
    /\ disallow_any
    /\ result.args = <<AnyType("from_error"), AnyType("from_error")>>
    /\ Len(after.calls) = 1

\* C12: fix_instance on an Instance with M > 0 arguments, M different from the
\* arity N of its class, replaces the argument list by exactly N
\* AnyType(from_error), keeping none of the arguments supplied, marks the
\* instance invalid and reports exactly one diagnostic, the one that states the
\* expected and the given count.
C12_WrongCount ==
    (Fixed /\ Len(inp.args) > 0 /\ Len(inp.args) # Arity(inp)) =>
        /\ result.k = "Instance" /\ result.type = inp.type
        /\ result.invalid
        /\ result.args = [i \in 1..Arity(inp) |-> AnyType("from_error")]
        /\ after.calls = <<[ev |-> "fail", msg |-> "expects n type arguments, but m given",
                            lvl |-> 0]>>

C12_Witness ==
    /\ Fixed /\ Len(inp.args) = 1 /\ Arity(inp) = 2
    /\ inp.args[1] = Instance("m.C", <<>>)
    /\ result.invalid
    /\ result.args = <<AnyType("from_error"), AnyType("from_error")>>

\* The instance was written with as many arguments as its class declares.
ExactCount == inp.k = "Instance" /\ Len(inp.args) = Arity(inp)

-----------------------------------------------------------------------------
(* Special forms and aliases: the analyzer on unions, optionals and alias names *)

\* What a union is written over: names of classes, None and aliases, and
\* unions of these.
Members ==
    {UnboundType(n, <<>>) : n \in {"C", "G", "None", "A", "B", "Q"}}
    \cup {UnboundType("Union", <<UnboundType("C", <<>>), UnboundType("G", <<>>)>>),
          UnboundType("Union", <<UnboundType("None", <<>>), UnboundType("C", <<>>)>>),
          UnboundType("Union", <<UnboundType("G", <<>>)>>)}

\* ClassVar as written: on its own, inside other types, and in signatures.
ClassVarForms ==
    LET C == UnboundType("C", <<>>)
        ClassVar == UnboundType("ClassVar", <<>>)
        ClassVarC == UnboundType("ClassVar", <<UnboundType("C", <<>>)>>)
    IN {UnboundType("ClassVar", args) :
            args \in SeqsUpTo({C, UnboundType("S", <<>>), UnboundType("T", <<>>),
                               UnboundType("G", <<UnboundType("S", <<>>)>>), ClassVarC},
                              MaxArgs)}
       \cup {UnboundType(n, <<cv>>) :
                n \in {"G", "Optional", "Type", "Union"}, cv \in {ClassVar, ClassVarC}}
       \cup {CallableType(<<a>>, <<"ARG_POS">>, <<"">>, r, NoneVal, <<>>, FALSE) :
                a \in {C, ClassVar, ClassVarC}, r \in {C, ClassVar, ClassVarC}}

\* The parameters of Literal[...] as parsed: an int, a float, an arbitrary
\* expression, a string, and names.
LiteralParams ==
    LET one == RawExpressionType([k |-> "int", v |-> 1], "builtins.int")
    IN {one, RawExpressionType(NoneVal, "builtins.float"),
        RawExpressionType(NoneVal, "typing.Any"),
        [UnboundType("x", <<>>) EXCEPT !.original_str_expr = [k |-> "str", v |-> "x"],
                                       !.original_str_fallback = "builtins.str"],
        UnboundType("Any", <<>>), UnboundType("None", <<>>), UnboundType("RED", <<>>),
        UnboundType("C", <<>>),
        UnboundType("Literal", <<one, UnboundType("None", <<>>)>>),
        UnboundType("Union", <<UnboundType("None", <<>>), UnboundType("RED", <<>>)>>),
        UnboundType("Union", <<UnboundType("None", <<>>), UnboundType("Literal", <<one>>)>>)}

LiteralForms == {UnboundType("Literal", args) : args \in SeqsUpTo(LiteralParams, MaxArgs)}

\* Callable as written: bare, with an ellipsis, with a list of entries (plain
\* or tagged with a constructor, named or not), and malformed.  The lists are
\* ones check_arg_names and check_arg_kinds accept.
CallableForms ==
    LET C == UnboundType("C", <<>>)
        entries ==
            {C, UnboundType("G", <<>>), UnboundType("T", <<>>)}
            \cup {CallableArgument(C, n, con) :
                     n \in {"", "x"}, con \in {"DefaultArg", "VarArg"}}
            \cup {CallableArgument(C, "", "C"), CallableArgument(C, "", "X"),
                  CallableArgument(C, "x", "")}
        lists ==
            {<<>>, <<CallableArgument(C, "x", "DefaultArg"),
                     CallableArgument(C, "", "VarArg")>>}
            \cup {<<e>> : e \in entries} \cup {<<C, e>> : e \in entries}
    IN {UnboundType("Callable", <<first, ret>>) :
            first \in {TypeList(l) : l \in lists} \cup {EllipsisType, C},
            ret \in {C, UnboundType("T", <<>>)}}
       \cup {UnboundType("Callable", args) :
                args \in {<<>>, <<C>>, <<TypeList(<<>>)>>, <<EllipsisType, C, C>>}}

\* Signatures over the free type variables T and U, the bound S, a generic
\* class, Literal and Callable.
SignatureForms ==
    LET T == UnboundType("T", <<>>)
        U == UnboundType("U", <<>>)
        C == UnboundType("C", <<>>)
        types == {C, T, U, UnboundType("S", <<>>), UnboundType("G", <<T>>),
                  UnboundType("Literal", <<T>>),
                  UnboundType("Callable", <<TypeList(<<U>>), T>>),
                  UnboundType("G", <<UnboundType("Callable", <<EllipsisType, U>>)>>)}
    IN {CallableType(args, [i \in 1..Len(args) |-> "ARG_POS"],
                     [i \in 1..Len(args) |-> ""], ret, NoneVal, <<>>, FALSE) :
            args \in SeqsUpTo(types, MaxArgs), ret \in types}

\* Union[...] and Optional[...] as written, names marked optional, and union
\* types whose items are still to be analysed.
Forms ==
    Members
    \cup ClassVarForms
    \cup LiteralForms
    \cup CallableForms
    \cup SignatureForms
    \cup {UnboundType("Union", args) : args \in SeqsUpTo(Members, MaxArgs)}
    \cup {UnboundType("Optional", <<m>>) : m \in Members}
    \cup {[m EXCEPT !.optional = TRUE] : m \in Members}
    \cup {[UnboundType("H", args) EXCEPT !.optional = o] :
             args \in SeqsUpTo({UnboundType("G", <<>>), UnboundType("Q", <<>>)}, MaxArgs),
             o \in BOOLEAN}
    \cup {UnionType(<<m1, m2>>) : m1 \in Members, m2 \in Members}

\* The module defines Q = A[C]: the target is kept expanded, as G[C].
InitForms ==
    /\ symtab = [InitSymtab EXCEPT !["m.Q"] =
            Sym(TypeAlias("m.Q", Instance("m.G", <<Instance("m.C", <<>>)>>), <<>>, FALSE))]
    /\ incomplete = {"builtins"}
    /\ final_iteration = FALSE
    /\ pass = 1
    /\ pc = "todo"
    /\ self \in Analyzers
    /\ scope0 = InitScope
    /\ expr \in Forms
    /\ inp = expr
    /\ result = NoneVal
    /\ after = NewState(InitScope)
    /\ deferred = FALSE

\* make_optional_type is applied to a type the analyzer produced, and to what
\* it returned for that.
MakeOptional ==
    /\ pc \in {"done", "make_optional_type"}
    /\ ~after.raised
    /\ pass < MaxPass
    /\ inp' = result
    /\ result' = make_optional_type(result)
    /\ pass' = pass + 1
    /\ pc' = "make_optional_type"
    /\ UNCHANGED <<symtab, incomplete, final_iteration, self, scope0, expr, after,
                   deferred>>

\* The driver analyses the signature of a function definition: its argument
\* and return types are not nested in another type.
AnalyzeSignature ==
    /\ pc = "todo" /\ inp.k = "CallableType"
    /\ \E r \in {visit_callable_type(inp, FALSE, NewState(scope0))} :
          /\ result' = r.res
          /\ after' = r.st
    /\ pc' = "visit_callable_type"
    /\ UNCHANGED <<symtab, incomplete, final_iteration, pass, self, scope0, expr, inp,
                   deferred>>

\* bind_function_type_variables asks for the type variables of a signature.
InferTypeVariables ==
    /\ pc = "todo" /\ inp.k = "CallableType"
    /\ result' = infer_type_variables(inp, scope0)
    /\ pc' = "infer_type_variables"
    /\ UNCHANGED <<symtab, incomplete, final_iteration, pass, self, scope0, expr, inp,
                   after, deferred>>

NextForms ==
    \/ Analyze
    \/ Reanalyze
    \/ AnalyzeSignature
    \/ InferTypeVariables
    \/ MakeOptional

SpecForms == InitForms /\ [][NextForms]_vars

\* C14: a reference marked optional is analysed to None or to a union whose one
\* None member is its last.  make_optional_type returns None for None; for a
\* union that holds None
\* a union with exactly one None member, after the other members in their
\* order; for any other type A the union of A and None; and applying it to its
\* own result changes nothing.
C14_MakeOptional ==
    /\ (pc = "done" /\ ~after.raised /\ inp.k = "UnboundType" /\ inp.optional) =>
          \/ result.k = "NoneType"
          \/ /\ result.k = "UnionType"
             /\ \A i \in 1..Len(result.items) :
                   result.items[i].k = "NoneType" <=> i = Len(result.items)
    /\ pc = "make_optional_type" =>
          /\ inp.k = "NoneType" => result = inp
          /\ inp.k # "NoneType" =>
                /\ result.k = "UnionType"
                /\ Cardinality({i \in 1..Len(result.items) :
                                   result.items[i].k = "NoneType"}) = 1
                /\ result.items =
                      SelectSeq(union_items(inp), LAMBDA item : item.k # "NoneType")
                      \o <<NoneType>>
          /\ inp.k \notin {"NoneType", "UnionType"} =>
                result = [k |-> "UnionType", items |-> <<inp, NoneType>>]
          /\ make_optional_type(result) = result
          /\ pass > 2 => result = inp

C14_Witness ==
    /\ pc = "make_optional_type"
    /\ pass = 2
    /\ inp.k = "UnionType"
    /\ Len(inp.items) = 3
    /\ inp.items[1].k = "NoneType"
    /\ result.items[3].k = "NoneType"
    /\ Len(result.items) = 3

\* The arguments of a union as written, with the arguments of the unions
\* written among them in their place.
RECURSIVE splice_unions(_)
splice_unions(args) ==
    IF args = <<>> THEN <<>>
    ELSE IF args[1].k = "UnboundType" /\ args[1].name = "Union"
    THEN splice_unions(args[1].args) \o splice_unions(Tail(args))
    ELSE <<args[1]>> \o splice_unions(Tail(args))

\* The analyzer has just returned a type for Union[...] or for a union type.
UnionAnalysed ==
    /\ pc = "done" /\ ~after.raised
    /\ \/ inp.k = "UnboundType" /\ inp.name = "Union" /\ ~inp.optional
       \/ inp.k = "UnionType"

-----------------------------------------------------------------------------
(* Alias expansion on its own: expand_type_alias *)

\* The aliases a reference can name: the target as the definition left it, the
\* names of the type variables it is generic in, and whether it was written bare.
ExpandAliases ==
    LET T == UnboundType("T", <<>>)
        S == UnboundType("S", <<>>)
        C == Instance("m.C", <<>>)
        function == Instance("builtins.function", <<>>)
        tuple == Instance("builtins.tuple", <<AnyType("special_form")>>)
    IN {TypeAlias("m.A", T, <<"T">>, FALSE),
        TypeAlias("m.A", Instance("m.G", <<T>>), <<"T">>, FALSE),
        TypeAlias("m.A", Instance("m.K", <<T, S>>), <<"T", "S">>, FALSE),
        TypeAlias("m.A", Instance("m.K", <<S, T>>), <<"S", "T">>, FALSE),
        TypeAlias("m.A", Instance("m.K", <<C, T>>), <<"T">>, FALSE),
        TypeAlias("m.A", Instance("m.G", <<Instance("m.G", <<T>>)>>), <<"T">>, FALSE),
        TypeAlias("m.A", UnionType(<<T, NoneType>>), <<"T">>, FALSE),
        TypeAlias("m.A", TupleType(<<T, C>>, tuple, FALSE), <<"T">>, FALSE),
        TypeAlias("m.A", CallableType(<<T, C>>, <<"ARG_POS", "ARG_POS">>, <<"", "">>, T,
                                      function, <<>>, FALSE), <<"T">>, FALSE),
        TypeAlias("m.A", C, <<>>, TRUE),
        TypeAlias("m.A", Instance("m.G", <<AnyType("from_omitted_generics")>>), <<>>, TRUE),
        TypeAlias("m.A", Instance("m.G", <<C>>), <<>>, FALSE),
        TypeAlias("m.A", UnionType(<<C, NoneType>>), <<>>, FALSE)}

\* A reference A[...] whose arguments are analysed, and the alias A it names.
InitExpand ==
    /\ symtab \in {[InitSymtab EXCEPT !["m.A"] = Sym(alias)] : alias \in ExpandAliases}
    /\ incomplete = {}
    /\ final_iteration = FALSE
    /\ pass = 1
    /\ pc = "todo"
    /\ self \in Analyzers
    /\ scope0 = InitScope
    /\ expr \in {UnboundType("A", args) :
                    args \in SeqsUpTo({Instance("m.C", <<>>), AnyType("explicit"),
                                       Instance("m.G", <<Instance("m.C", <<>>)>>)},
                                      MaxArgs)}
    /\ inp = expr
    /\ result = NoneVal
    /\ after = NewState(InitScope)
    /\ deferred = FALSE

\* The alias the reference names.
Alias == symtab["m.A"].node

\* expand_type_alias is called as the alias branch calls it.
ExpandTypeAlias ==
    /\ pc = "todo"
    /\ \E r \in {expand_type_alias(Alias.target, Alias.alias_tvars, inp.args,
                                   Alias.no_args, inp, disallow_any, NewState(scope0))} :
          /\ result' = r.res
          /\ after' = r.st
    /\ pc' = "expand_type_alias"
    /\ UNCHANGED <<symtab, incomplete, final_iteration, pass, self, scope0, expr, inp,
                   deferred>>

SpecExpand == InitExpand /\ [][ExpandTypeAlias]_vars

\* The type with every occurrence of a name among names replaced by the type
\* at that name's index in subs: the type itself if it is such a name, and
\* every occurrence among its arguments, items and signature.
RECURSIVE Substituted(_, _, _)
Substituted(t, names, subs) ==
    CASE t.k \in {"UnboundType", "TypeVarType"}
         /\ (\E j \in 1..Len(names) : names[j] = t.name) -> subs[index(names, t.name)]
      [] t.k = "Instance" ->
            [t EXCEPT !.args = [i \in 1..Len(t.args) |->
                                   Substituted(t.args[i], names, subs)]]
      [] t.k \in {"UnionType", "TupleType"} ->
            [t EXCEPT !.items = [i \in 1..Len(t.items) |->
                                    Substituted(t.items[i], names, subs)]]
      [] t.k = "CallableType" ->
            [t EXCEPT !.arg_types = [i \in 1..Len(t.arg_types) |->
                                        Substituted(t.arg_types[i], names, subs)],
                      !.ret_type = Substituted(t.ret_type, names, subs)]
      [] OTHER -> t

\* expand_type_alias has just returned.
Expanded == pc = "expand_type_alias" /\ ~after.raised

\* C16: with as many actuals as formals, and at least one, expand_type_alias
\* returns the target with every occurrence of a formal, the target itself
\* included, replaced by the actual at that formal's index, whatever the
\* position of the occurrence; nothing else changes and nothing is reported.
\* Violated: a target that is itself the formal is returned as it is.
C16_EveryOccurrenceReplaced ==
    (Expanded /\ Len(inp.args) > 0 /\ Len(inp.args) = Len(Alias.alias_tvars)) =>
        /\ result = Substituted(Alias.target, Alias.alias_tvars, inp.args)
        /\ after.calls = <<>>

\* The alias was written bare and names a class: A = G.
BareInstanceAlias == Alias.no_args /\ Alias.target.k = "Instance"

\* C17: for an alias without formals, expand_type_alias without actuals returns
\* the target as it is, or the instance of the target's class without
\* arguments if the alias was written bare and names a class; with actuals and
\* such a bare alias it returns the instance of the target's class with exactly
\* the actuals as arguments.  Nothing is reported.
C17_NoFormals ==
    (Expanded /\ Alias.alias_tvars = <<>>) =>
        /\ (inp.args = <<>> /\ ~BareInstanceAlias) =>
              result = Alias.target /\ after.calls = <<>>
        /\ (inp.args = <<>> /\ BareInstanceAlias) =>
              result = Instance(Alias.target.type, <<>>) /\ after.calls = <<>>
        /\ (inp.args # <<>> /\ BareInstanceAlias) =>
              result = Instance(Alias.target.type, inp.args) /\ after.calls = <<>>

C17_Witness ==
    /\ Expanded /\ Alias.alias_tvars = <<>>
    /\ BareInstanceAlias
    /\ Alias.target = Instance("m.G", <<AnyType("from_omitted_generics")>>)
    /\ Len(inp.args) = 2
    /\ result = Instance("m.G", inp.args)

\* C18: with a nonzero number of actuals other than the number of formals
\* (the bare alias of a class apart), expand_type_alias reports exactly one
\* diagnostic, the one with the expected and the given count, and returns the
\* target with every occurrence of a formal replaced by AnyType(from_error).
\* Violated: a target that is itself the formal is returned as it is (see C16).
C18_WrongCountOfActuals ==
    (/\ Expanded /\ Len(inp.args) > 0 /\ Len(inp.args) # Len(Alias.alias_tvars)
     /\ ~(Alias.alias_tvars = <<>> /\ BareInstanceAlias)) =>
        /\ result = Substituted(Alias.target, Alias.alias_tvars,
                                [i \in 1..Len(Alias.alias_tvars) |-> AnyType("from_error")])
        /\ after.calls = <<[ev |-> "fail", msg |-> "Bad number of arguments for type alias",
                            lvl |-> 0]>>

\* C19: for an alias with formals, expand_type_alias without actuals returns
\* the target with every occurrence of a formal replaced by an unknown type:
\* AnyType(from_omitted_generics) and no diagnostic when disallow_any is false,
\* AnyType(from_error) and exactly one diagnostic when it is true.
\* Violated: a target that is itself the formal is returned as it is (see C16).
C19_NoActuals ==
    (Expanded /\ Len(Alias.alias_tvars) > 0 /\ inp.args = <<>>) =>
        /\ result = Substituted(Alias.target, Alias.alias_tvars,
                                [i \in 1..Len(Alias.alias_tvars) |->
                                    AnyType(IF disallow_any THEN "from_error"
                                            ELSE "from_omitted_generics")])
        /\ Events(after.calls) = IF disallow_any THEN <<"fail">> ELSE <<>>

\* The full names of the aliases named in a type expression as written.
RECURSIVE aliases_named(_)
aliases_named(t) ==
    CASE t.k = "UnboundType" ->
            (IF lookup_qualified(t.name).present
                /\ lookup_qualified(t.name).node.kind = "TypeAlias"
             THEN {lookup_qualified(t.name).node.fullname} ELSE {})
            \cup UNION {aliases_named(t.args[i]) : i \in 1..Len(t.args)}
      [] t.k = "UnionType" -> UNION {aliases_named(t.items[i]) : i \in 1..Len(t.items)}
      [] OTHER -> {}

\* The aliases named, with those named in the definitions of aliases already
\* found: A = G[T], B = G and Q = A[C] are the module's alias definitions.
RECURSIVE aliases_reachable(_)
aliases_reachable(found) ==
    LET rvalue == [f \in found |->
                      CASE f = "m.A" -> UnboundType("G", <<UnboundType("T", <<>>)>>)
                        [] f = "m.Q" -> UnboundType("A", <<UnboundType("C", <<>>)>>)
                        [] OTHER -> UnboundType("G", <<>>)]
        more == found \cup UNION {aliases_named(rvalue[f]) : f \in found}
    IN IF more = found THEN found ELSE aliases_reachable(more)

\* C20: the set analyze_type_alias returns with the type holds the full name
\* of every alias the expression names and of every alias reachable through
\* the definitions of those aliases.
\* Violated: only the aliases named in the expression itself are in the set.
C20_AliasesUsedTransitive ==
    (pc = "done" /\ self.defining_alias /\ ~after.raised) =>
        aliases_reachable(aliases_named(inp)) \subseteq after.aliases_used

-----------------------------------------------------------------------------
(* Plugin hooks *)

\* The named reference just analysed has a symbol the plugin has a hook for.
HookedReference ==
    /\ NamedReference /\ InpSym.present
    /\ InpSym.node.kind \notin {"PlaceholderNode", "None"}
    /\ InpSym.node.fullname \in hooked

\* C21 as stated: the result for a reference whose symbol has a hook is exactly
\* what the hook returned, and nothing is reported.
C21_AsStated ==
    HookedReference =>
        /\ ~after.raised
        /\ result = hook_result(inp)
        /\ after.calls = <<>>

\* C21: for a reference whose symbol has a hook the analyzer analyses no
\* argument, expands no alias, fixes no arity and reports nothing; the result
\* is what the hook returned, wrapped by make_optional_type if the reference is
\* marked optional.
C21_HookResultReturned ==
    HookedReference =>
        /\ ~after.raised
        /\ after.calls = <<>>
        /\ after.aliases_used = {}
        /\ result = IF inp.optional THEN make_optional_type(hook_result(inp))
                    ELSE hook_result(inp)

C21_Witness ==
    /\ HookedReference
    /\ inp.optional
    /\ inp.args = <<UnboundType("G", <<>>), UnboundType("Q", <<>>)>>
    /\ self.disallow_any_generics /\ ~self.defining_alias
    /\ result = [k |-> "UnionType", items |-> <<hook_result(inp), NoneType>>]

-----------------------------------------------------------------------------
(* ClassVar and the nesting level *)

\* How many references to ClassVar among the types and their components are
\* reached inside another type; the argument and return types of a signature
\* are inside it if nested holds.
RECURSIVE nested_classvars(_, _, _)
nested_classvars(types, inside, nested) ==
    IF types = <<>> THEN 0
    ELSE LET t == types[1]
             here ==
                 CASE t.k = "UnboundType" /\ t.name = "ClassVar" ->
                        (IF inside THEN 1 ELSE 0)
                        + (IF Len(t.args) = 1 THEN nested_classvars(t.args, TRUE, nested)
                           ELSE 0)
                   [] t.k = "UnboundType" /\ t.name \in {"G", "Optional", "Type", "Union"} ->
                        nested_classvars(t.args, TRUE, nested)
                   [] t.k = "UnionType" -> nested_classvars(t.items, TRUE, nested)
                   [] t.k = "CallableType" ->
                        nested_classvars(Append(t.arg_types, t.ret_type),
                                         inside \/ nested, nested)
                   [] OTHER -> 0
         IN here + nested_classvars(Tail(types), inside, nested)

\* The reports of a ClassVar inside another type.
NestedClassVarReports ==
    SelectSeq(after.calls,
              LAMBDA c : c.msg = "Invalid type: ClassVar nested inside other type")

\* A reference to ClassVar was analysed on its own.
ClassVarAnalysed ==
    /\ pc = "done" /\ ~after.raised
    /\ inp.k = "UnboundType" /\ inp.name = "ClassVar" /\ ~inp.optional

\* C22 as stated: a ClassVar is reported as nested whenever it is an argument
\* or a component of another type, and a ClassVar whose argument is or holds a
\* type variable gives AnyType(from_error).
C22_AsStated ==
    /\ (pc \in {"done", "visit_callable_type"} /\ ~after.raised) =>
          Len(NestedClassVarReports) = nested_classvars(<<inp>>, FALSE, TRUE)
    /\ (ClassVarAnalysed /\ Len(inp.args) = 1
        /\ (inp.args[1].name \in {"S", "T"}
            \/ (inp.args[1].args # <<>> /\ inp.args[1].args[1].name \in {"S", "T"}))) =>
          result = AnyType("from_error")

\* C22: ClassVar is reported as nested exactly when the nesting level is above
\* zero, which is when it is reached through anal_type or anal_array with
\* nested set: as an argument or component of another type, but not as the
\* argument or return type of a signature visited with nested unset.  On its
\* own, ClassVar without arguments is the unknown type and reports nothing;
\* with one argument it reports nothing and is the analysed argument, unless
\* that is or holds a TypeVarType, which is an error giving
\* AnyType(from_error); with more arguments it is an error as well.
C22_ClassVarNesting ==
    /\ (pc \in {"done", "visit_callable_type"} /\ ~after.raised) =>
          /\ \A i \in 1..Len(NestedClassVarReports) : NestedClassVarReports[i].lvl > 0
          /\ Len(NestedClassVarReports) =
                nested_classvars(<<inp>>, FALSE, pc = "done")
    /\ (ClassVarAnalysed /\ Len(inp.args) = 0) =>
          result = AnyType("from_omitted_generics") /\ after.calls = <<>>
    /\ (ClassVarAnalysed /\ Len(inp.args) = 1) =>
          \E item \in {anal_type(inp.args[1], TRUE, NewState(scope0))} :
             IF has_type_vars(item.res)
             THEN /\ result = AnyType("from_error")
                  /\ Events(OwnCalls(after)) = <<"fail">>
             ELSE /\ result = item.res
                  /\ OwnCalls(after) = <<>>
    /\ (ClassVarAnalysed /\ Len(inp.args) > 1) =>
          /\ result = AnyType("from_error")
          /\ Events(after.calls) = <<"fail">>

C22_Witness ==
    /\ pc = "visit_callable_type" /\ ~after.raised
    /\ inp.arg_types = <<UnboundType("ClassVar", <<UnboundType("C", <<>>)>>)>>
    /\ result.arg_types = <<Instance("m.C", <<>>)>>
    /\ NestedClassVarReports = <<>>

-----------------------------------------------------------------------------
(* Literal[...] *)

\* The literal types the parameters stand for, in order, or ok unset if one of
\* them is no literal.  A member of a Union is analysed as a type of its own,
\* outside Literal (defining_literal unset).
RECURSIVE literals_of(_, _)
literals_of(params, defining_literal) ==
    IF params = <<>> THEN [ok |-> TRUE, types |-> <<>>]
    ELSE LET p == params[1]
             first ==
                 CASE p.k = "RawExpressionType" ->
                        IF defining_literal /\ p.literal_value.k # "<None>"
                        THEN [ok |-> TRUE,
                              types |-> <<LiteralType(p.literal_value,
                                                      Instance(p.base_type_name, <<>>))>>]
                        ELSE [ok |-> FALSE]
                   [] p.k = "UnboundType" /\ p.original_str_expr.k # "<None>" ->
                        IF defining_literal
                        THEN [ok |-> TRUE,
                              types |-> <<LiteralType(p.original_str_expr,
                                                      Instance("builtins.str", <<>>))>>]
                        ELSE [ok |-> FALSE]
                   [] p.k = "UnboundType" /\ p.name = "None" /\ p.args = <<>> ->
                        [ok |-> TRUE, types |-> <<NoneType>>]
                   [] p.k = "UnboundType" /\ p.name = "RED" /\ p.args = <<>> ->
                        IF defining_literal
                        THEN [ok |-> TRUE,
                              types |-> <<LiteralType("m.E.RED", Instance("m.E", <<>>))>>]
                        ELSE [ok |-> FALSE]
                   [] p.k = "UnboundType" /\ p.name = "Literal" /\ p.args # <<>> ->
                        literals_of(p.args, TRUE)
                   [] p.k = "UnboundType" /\ p.name = "Union" /\ p.args # <<>> ->
                        literals_of(p.args, FALSE)
                   [] OTHER -> [ok |-> FALSE]
             rest == literals_of(Tail(params), defining_literal)
         IN IF first.ok /\ rest.ok
            THEN [ok |-> TRUE, types |-> first.types \o rest.types]
            ELSE [ok |-> FALSE]

\* A reference to Literal was analysed.
LiteralAnalysed ==
    /\ pc = "done" /\ inp.k = "UnboundType" /\ inp.name = "Literal" /\ ~inp.optional

\* C23: Literal without parameters is reported once and is AnyType(from_error);
\* if every parameter is a literal, the result is the union, in the order
\* written, of the literal types of the parameters (the one type itself if
\* there is one), the members of a nested Literal or Union each counting, an
\* int literal falling back on builtins.int and a string on builtins.str, and
\* nothing is reported; if one parameter is no literal (a float, an arbitrary
\* expression, Any, a class) the result is AnyType(from_error), whatever the
\* other parameters are.
C23_LiteralOf ==
    LiteralAnalysed =>
        /\ ~after.raised
        /\ after.nesting_level = 0
        /\ IF inp.args = <<>>
           THEN result = AnyType("from_error") /\ Events(after.calls) = <<"fail">>
           ELSE IF literals_of(inp.args, TRUE).ok
           THEN /\ result = make_union(literals_of(inp.args, TRUE).types)
                /\ after.calls = <<>>
           ELSE result = AnyType("from_error")

C23_Witness ==
    /\ LiteralAnalysed
    /\ inp.args = <<UnboundType("Literal",
                                <<RawExpressionType([k |-> "int", v |-> 1], "builtins.int"),
                                  UnboundType("None", <<>>)>>),
                    [UnboundType("x", <<>>) EXCEPT
                        !.original_str_expr = [k |-> "str", v |-> "x"],
                        !.original_str_fallback = "builtins.str"]>>
    /\ result.k = "UnionType"
    /\ result.items = <<LiteralType([k |-> "int", v |-> 1], Instance("builtins.int", <<>>)),
                        NoneType,
                        LiteralType([k |-> "str", v |-> "x"],
                                    Instance("builtins.str", <<>>))>>

-----------------------------------------------------------------------------
(* Callable[...] *)

\* A reference to Callable was analysed.
CallableAnalysed ==
    /\ pc = "done" /\ inp.k = "UnboundType" /\ inp.name = "Callable" /\ ~inp.optional

\* The entry of a Callable list is one analyze_callable_args gives up on: no
\* constructor, an unknown name, a name that is no argument constructor, or a
\* named star argument.
BadEntry(e) ==
    /\ e.k = "CallableArgument"
    /\ \/ e.constructor \notin {"DefaultArg", "VarArg"}
       \/ e.constructor = "VarArg" /\ e.name # ""

\* The type is what the name of class C, of the generic class G, or of the
\* type variable T resolves to.
ResolvedFrom(type, written) ==
    CASE written.name = "C" -> type = Instance("m.C", <<>>)
      [] written.name = "G" -> type.k = "Instance" /\ type.type = "m.G"
      [] OTHER -> type.k \in {"TypeVarType", "UnboundType"} /\ type.name = written.name

-----------------------------------------------------------------------------
(* The type variables of a signature *)

\* The names of type variables not bound in the scope, as they occur in the
\* types from left to right, with repetitions; nothing inside Literal, and
\* nothing inside Callable if in_return_type holds.
RECURSIVE free_type_variables(_, _)
free_type_variables(types, in_return_type) ==
    IF types = <<>> THEN <<>>
    ELSE LET t == types[1]
             here ==
                 CASE t.k = "UnboundType" /\ t.name \in {"T", "U"} -> <<t.name>>
                   [] t.k = "UnboundType" /\ t.name = "Literal" -> <<>>
                   [] t.k = "UnboundType" /\ t.name = "Callable" /\ in_return_type -> <<>>
                   [] t.k = "UnboundType" -> free_type_variables(t.args, in_return_type)
                   [] t.k = "TypeList" -> free_type_variables(t.items, in_return_type)
                   [] OTHER -> <<>>
         IN here \o free_type_variables(Tail(types), in_return_type)

\* The first occurrence of each name, in order.
FirstOccurrences(names) ==
    LET keep == {i \in 1..Len(names) : \A j \in 1..(i - 1) : names[j] # names[i]}
        nth[n \in 0..Cardinality(keep)] ==
            IF n = 0 THEN 0 ELSE CHOOSE i \in keep : i > nth[n - 1] /\
                                     \A j \in keep : j > nth[n - 1] => i <= j
    IN [n \in 1..Cardinality(keep) |-> names[nth[n]]]

\* C25: infer_type_variables returns every type variable that is not bound in
\* the scope and occurs in an argument type, or in the return type outside
\* any Callable, once, in the order of first occurrence, argument types first;
\* it returns no bound type variable, none that occurs only inside a Callable
\* of the return type, and nothing from inside Literal.
C25_InferTypeVariables ==
    pc = "infer_type_variables" =>
        /\ [i \in 1..Len(result) |-> result[i][1]] =
              FirstOccurrences(free_type_variables(inp.arg_types, FALSE)
                               \o free_type_variables(<<inp.ret_type>>, TRUE))
        /\ \A i \in 1..Len(result) :
              /\ result[i][2] = "m." \o result[i][1]
              /\ get_binding(scope0, result[i][2]) = NoneVal

C25_Witness ==
    /\ pc = "infer_type_variables"
    /\ inp.arg_types = <<UnboundType("G", <<UnboundType("T", <<>>)>>),
                         UnboundType("Literal", <<UnboundType("T", <<>>)>>)>>
    /\ inp.ret_type = UnboundType("Callable", <<TypeList(<<UnboundType("U", <<>>)>>),
                                                UnboundType("T", <<>>)>>)
    /\ result = << <<"T", "m.T">> >>

-----------------------------------------------------------------------------
(* Analysing an analysed type again *)

\* The type is one of the variants an analysis is meant to end in, all the way
\* down: no reference, list, raw expression or ellipsis is left in it.
RECURSIVE Canonical(_)
Canonical(t) ==
    CASE t.k \in {"AnyType", "NoneType", "UninhabitedType", "DeletedType",
                  "TypeVarType", "LiteralType"} -> TRUE
      [] t.k \in {"Instance", "PlaceholderType"} ->
            \A i \in 1..Len(t.args) : Canonical(t.args[i])
      [] t.k \in {"UnionType", "TupleType"} ->
            \A i \in 1..Len(t.items) : Canonical(t.items[i])
      [] t.k = "TypedDictType" ->
            \A i \in 1..Len(t.item_types) : Canonical(t.item_types[i])
      [] t.k = "CallableType" ->
            /\ \A i \in 1..Len(t.arg_types) : Canonical(t.arg_types[i])
            /\ Canonical(t.ret_type)
      [] t.k = "TypeType" -> Canonical(t.item)
      [] t.k = "StarType" -> Canonical(t.type)
      [] OTHER -> FALSE

\* The analyzer comes to a PlaceholderType in the type: the type is one, or
\* holds one outside the arguments of an Instance, which are not visited.
RECURSIVE visits_placeholder(_)
visits_placeholder(t) ==
    CASE t.k = "PlaceholderType" -> TRUE
      [] t.k \in {"UnionType", "TupleType"} ->
            \E i \in 1..Len(t.items) : visits_placeholder(t.items[i])
      [] t.k = "TypedDictType" ->
            \E i \in 1..Len(t.item_types) : visits_placeholder(t.item_types[i])
      [] t.k = "CallableType" ->
            \/ \E i \in 1..Len(t.arg_types) : visits_placeholder(t.arg_types[i])
            \/ visits_placeholder(t.ret_type)
      [] t.k = "TypeType" -> visits_placeholder(t.item)
      [] t.k = "StarType" -> visits_placeholder(t.type)
      [] OTHER -> FALSE

\* An analysed type was analysed again.
Reanalyzed == pc = "analyze_type" /\ Canonical(inp)

\* C26 as stated: the second analysis returns an equal type and calls nothing
\* on the api.
C26_AsStated == Reanalyzed => /\ ~after.raised /\ result = inp /\ after.calls = <<>>

\* C26: the second analysis of an analysed type, the symbol table unchanged,
\* returns an equal type and reports nothing; it calls nothing on the api,
\* unless the type is or holds, outside the arguments of an Instance, a
\* PlaceholderType, whose name is then still a placeholder in the symbol
\* table: for that api.defer is called again, and nothing else.
C26_Idempotent ==
    Reanalyzed =>
        /\ ~after.raised
        /\ result = inp
        /\ \A i \in 1..Len(after.calls) : after.calls[i].ev = "defer"
        /\ Called(after, "defer") <=> visits_placeholder(inp)

C26_Witness ==
    /\ Reanalyzed
    /\ inp.k = "CallableType" /\ inp.variables # <<>>
    /\ inp.ret_type.k = "TypeVarType"
    /\ result = inp /\ after.calls = <<>>

-----------------------------------------------------------------------------
(* The standalone fixup *)

\* How many instances among the types and their components, at any depth, have
\* arguments, but not as many as their class declares.
RECURSIVE wrong_counts(_)
wrong_counts(types) ==
    IF types = <<>> THEN 0
    ELSE LET t == types[1]
             here ==
                 CASE t.k = "Instance" ->
                        (IF Len(t.args) > 0 /\ Len(t.args) # Arity(t) THEN 1 ELSE 0)
                        + wrong_counts(t.args)
                   [] t.k = "UnionType" -> wrong_counts(t.items)
                   [] t.k = "TupleType" ->
                        wrong_counts(Append(t.items, t.partial_fallback))
                   [] t.k = "TypeType" -> wrong_counts(<<t.item>>)
                   [] t.k = "CallableType" ->
                        wrong_counts(Append(t.arg_types, t.ret_type))
                   [] OTHER -> 0
         IN here + wrong_counts(Tail(types))

\* C27: after fix_instance_types every Instance in the type, at any depth, has
\* as many arguments as its class declares; a type whose instances all had
\* that many is returned as it was, with no report; an instance without
\* arguments of a generic class gets AnyType(from_omitted_generics) for each
\* and is not marked invalid, with no report, whatever the options; every
\* instance with a wrong count of arguments other than zero is reported once,
\* and marked invalid; a second fix_instance_types changes nothing and reports
\* nothing.
C27_FixInstanceTypes ==
    /\ pc = "fix_instance_types" =>
          /\ ~after.raised
          /\ AllInstancesFixed(result)
          /\ Len(after.calls) = wrong_counts(<<inp>>)
          /\ \A i \in 1..Len(after.calls) : after.calls[i].ev = "fail"
          /\ AllInstancesFixed(inp) => result = inp
          /\ (inp.k = "Instance" /\ inp.args = <<>>) =>
                /\ result.args = [i \in 1..Arity(inp) |-> AnyType("from_omitted_generics")]
                /\ ~result.invalid
          /\ (inp.k = "Instance" /\ inp.args # <<>> /\ Len(inp.args) # Arity(inp)) =>
                /\ result.args = [i \in 1..Arity(inp) |-> AnyType("from_error")]
                /\ result.invalid
    /\ pc = "fix_instance_types_again" =>
          /\ ~after.raised
          /\ result = inp
          /\ after.calls = <<>>

C27_Witness ==
    /\ pc = "fix_instance_types_again"
    /\ expr = UnionType(<<Instance("m.G", <<>>),
                          Instance("m.G", <<Instance("m.K", <<Instance("m.C", <<>>)>>)>>)>>)
    /\ result.items[1] = Instance("m.G", <<AnyType("from_omitted_generics")>>)
    /\ result.items[2].args[1].invalid
    /\ result.items[2].args[1].args = <<AnyType("from_error"), AnyType("from_error")>>
    /\ ~result.items[2].invalid
    /\ disallow_any

-----------------------------------------------------------------------------
(* The nesting level *)

\* How deep the components of the type are nested in it.
RECURSIVE Depth(_)
Depth(t) ==
    LET parts ==
            CASE t.k \in {"UnboundType", "Instance", "PlaceholderType"} -> t.args
              [] t.k \in {"UnionType", "TupleType", "TypeList"} -> t.items
              [] t.k = "TypedDictType" -> t.item_types
              [] t.k = "CallableType" -> Append(t.arg_types, t.ret_type)
              [] t.k = "TypeType" -> <<t.item>>
              [] t.k = "StarType" -> <<t.type>>
              [] t.k = "CallableArgument" -> <<t.typ>>
              [] OTHER -> <<>>
    IN IF parts = <<>> THEN 0
       ELSE 1 + CHOOSE d \in {Depth(parts[i]) : i \in 1..Len(parts)} :
                    \A i \in 1..Len(parts) : Depth(parts[i]) <= d

\* An analysis that started at level 0 has ended, by returning or by raising.
AnalysisEnded == pc \in {"done", "analyze_type", "visit_callable_type"}

\* C28: the nesting level starts at 0; while an analysis runs it is never
\* negative and never more than the depth of the type being analysed, each
\* nested anal_type and each literal parameter adding one for as long as it
\* runs; and when the analysis has ended the level is 0 again, whether it
\* returned or raised.
C28_NestingBalanced ==
    /\ pc = "todo" => NewState(scope0).nesting_level = 0
    /\ AnalysisEnded =>
          /\ after.nesting_level = 0
          /\ \A i \in 1..Len(after.calls) :
                after.calls[i].lvl >= 0 /\ after.calls[i].lvl <= Depth(inp)

\* The analysis raised inside an argument, one level down.
C28_Witness ==
    /\ AnalysisEnded /\ after.raised
    /\ inp.k = "UnboundType" /\ inp.name = "f"
    /\ Len(inp.args) = 1 /\ inp.args[1].k = "PlaceholderType"
    /\ after.nesting_level = 0

====
